---- MODULE Spec2Model ----
(***************************************************************************)
(* participation-tracker: the roster reconciliation run at startup         *)
(* (back.rs insert_starting_data), the student picker (back.rs             *)
(* StudentPicker) and the participation ledger (back.rs EventRecorder),    *)
(* over the PostgreSQL tables that back.rs set_up_tables creates.          *)
(*                                                                         *)
(* Every client.execute / batch_execute is one autocommitted statement:    *)
(* it is applied entirely or not at all, and it may fail for a reason      *)
(* outside the program (the connection), which the `io` choice of an       *)
(* action stands for.  CURRENT_TIMESTAMP is `clock`, which advances with   *)
(* every statement that stamps a row, and with Tick while the operator     *)
(* waits.  A UI callback of front.rs runs to its end before the next one   *)
(* starts (cursive's event loop has one thread), so it is one action.      *)
(***************************************************************************)
EXTENDS Integers, Sequences, FiniteSets, TLC

(* ---------------------------------------------------------------- bounds *)
\* longest roster file read at startup
MaxRosterLen == 2
\* startups of the program in one behaviour (the store persists across them)
MaxRuns == 2
\* largest list of students a picker is built from on its own
MaxPool == 3
\* most events the ledger holds
MaxEvents == 2
\* last value of the clock at which the ledger is used
MaxTime == 5
\* clock ticks in a calendar day
TicksPerDay == 2
\* largest row count a record call is taken to return
MaxCount == 2

(* ------------------------------------------------------- input alphabets *)
UbIds == {"u1", "u2"}
Names == {"Ann", "Bob"}
Usernames == {"ann", "bob"}

VARIABLES
    \* ---- the store (persists across runs of the program)
    metadata,       \* metadata table: [exists, last_opened, summary_last_updated]
    statuses,       \* statuses table: names, db_id = position
    categories,     \* categories table: names, db_id = position
    students,       \* students table: set of rows
    student_seq,    \* next value of students.db_id's identity sequence
    events,         \* events table: rows in insertion order, db_id = position
    summary,        \* summary table: set of rows [student_id, points]
    clock,          \* CURRENT_TIMESTAMP
    \* ---- the process
    pc,             \* where main / insert_starting_data is
    roster,         \* main's `roster`: Option<Roster>
    pos,            \* RosterIterator.pos of the upsert loop
    ub_ids_already_present,  \* the HashSet of insert_starting_data
    exit_reason,    \* why the process ended ("" while it runs)
    pool,           \* Rc<Vec<Student>> handed to the picker and the UI
    shuffled_indices,   \* StudentPicker.shuffled_indices (0-based values)
    cur_ind,        \* StudentPicker.cur_ind
    last_pick,      \* what the last next() returned: <<student>>, or <<>>
    ret,            \* what the last EventRecorder call returned
    rows,           \* the rows the last retrieve_events returned
    batch,          \* the change_events call in progress: its changes, how many are done
    screen,         \* the layer on top of cursive's stack ("none": no UI)
    exported,       \* the rows get_summary returned to the export in progress
    held,           \* the mutexes whose guard is alive between two callbacks
    form,           \* the recording dialog: its status text and its fields
    \* ---- history (not program state)
    run,            \* number of this startup
    start_students, \* the students table when this run started
    n_written,      \* student rows written by this run (sum of rows affected)
    n_inserted,     \* student rows inserted by this run
    sync_ok,        \* this run's roster branch ran to its end
    prev_sync_ok,   \* the previous run's roster branch ran to its end
    pass_drawn,     \* students returned since the bag was last shuffled
    prev_pick       \* what the next() before the last one returned

dbvars == <<metadata, statuses, categories, students, student_seq, events, summary, clock>>
syncvars == <<pc, roster, pos, ub_ids_already_present, exit_reason>>
pickervars == <<pool, shuffled_indices, cur_ind, last_pick, pass_drawn, prev_pick>>
histvars == <<run, start_students, n_written, n_inserted, sync_ok, prev_sync_ok>>
ledgervars == <<ret, rows, batch>>
uivars == <<screen, exported, held, form>>
vars == <<dbvars, syncvars, pickervars, ledgervars, uivars, histvars>>

(* ------------------------------------------------------------ model.rs *)
Roster_new(ub_ids, names, usernames) ==
    [ub_ids |-> ub_ids, names |-> names, usernames |-> usernames]

\* RosterIterator::next at position p: Some((ub_id, name, username)) or None
RosterIterator_next(r, p) ==
    IF p >= Len(r.ub_ids) \/ p >= Len(r.names) \/ p >= Len(r.usernames)
    THEN [some |-> FALSE, ub_id |-> "", name |-> "", username |-> ""]
    ELSE [some |-> TRUE, ub_id |-> r.ub_ids[p + 1], name |-> r.names[p + 1],
          username |-> r.usernames[p + 1]]

Student_new(db_id, ub_id, name, first_entered, status_id, last_updated) ==
    [db_id |-> db_id, ub_id |-> ub_id, name |-> name,
     first_entered |-> first_entered, status_id |-> status_id,
     last_updated |-> last_updated]

(* -------------------------------------------------------------- gate.rs *)
\* read_roster pushes one ub_id, one name and one username per accepted row
RosterEntries == [ub_id : UbIds, name : Names, username : Usernames]

SeqsUpTo(S, n) == UNION {[1..k -> S] : k \in 0..n}

read_roster(recs) ==
    Roster_new([i \in 1..Len(recs) |-> recs[i].ub_id],
               [i \in 1..Len(recs) |-> recs[i].name],
               [i \in 1..Len(recs) |-> recs[i].username])

RosterFiles == SeqsUpTo(RosterEntries, MaxRosterLen)

\* main's Option<Roster>: Some(read_roster(file)) with a path argument, else None
SomeRoster(r) == [is_some |-> TRUE, val |-> r]
NoRoster == [is_some |-> FALSE, val |-> Roster_new(<<>>, <<>>, <<>>)]

(* ------------------------------------------------------ the store's rows *)
SeededStatuses == <<"enrolled", "dropped">>
\* a seeding statement that leaves out the last category
SeededCategories_without_review == <<"comment", "error", "homework", "practice", "question">>
SeededCategories == <<"comment", "error", "homework", "practice", "question", "review">>

\* SELECT db_id FROM <table> WHERE name = n; 0 when no row matches
IdByName(table, n) ==
    IF \E i \in 1..Len(table) : table[i] = n
    THEN CHOOSE i \in 1..Len(table) : table[i] = n
    ELSE 0

\* the ids the seeded statuses table gives 'enrolled' and 'dropped'
EnrolledId == IdByName(SeededStatuses, "enrolled")
DroppedId == IdByName(SeededStatuses, "dropped")

StudentRow(db_id, ub_id, name, username, status_id, first_entered, last_updated) ==
    [db_id |-> db_id, ub_id |-> ub_id, name |-> name, username |-> username,
     status_id |-> status_id, first_entered |-> first_entered,
     last_updated |-> last_updated]

\* the UNIQUE constraints of the students table (ub_id, name, username) and its key
TableValid(tbl) ==
    \A r1, r2 \in tbl :
        (r1.db_id = r2.db_id \/ r1.ub_id = r2.ub_id \/ r1.name = r2.name
            \/ r1.username = r2.username) => r1 = r2

\* a students table whose username column is not UNIQUE
UniqueViolation_name_only(tbl, ub_id, name, username) ==
    \E r \in tbl : r.ub_id # ub_id /\ r.name = name

\* a row written by statement `row` would break UNIQUE (name) or UNIQUE (username)
UniqueViolation(tbl, ub_id, name, username) ==
    \E r \in tbl : r.ub_id # ub_id /\ (r.name = name \/ r.username = username)

(* ------------------------------------------- back.rs: the SQL statements *)
\* what a statement on the students table gives back: the table after it, the
\* number of rows affected and inserted, and whether the store accepted it
StmtResult(tbl, n, ins, ok) == [students |-> tbl, n |-> n, ins |-> ins, ok |-> ok]

\* upsert_statement without its WHERE clause: a conflicting row is always rewritten
upsert_statement_always_update(tbl, seq, now, ub_id, name, status_id, username) ==
    LET found == {r \in tbl : r.ub_id = ub_id}
    IN  IF UniqueViolation(tbl, ub_id, name, username)
        THEN StmtResult(tbl, 0, 0, FALSE)
        ELSE IF found = {}
             THEN StmtResult(
                    tbl \cup {StudentRow(seq, ub_id, name, username, status_id, now, now)},
                    1, 1, TRUE)
             ELSE StmtResult(
                    (tbl \ found) \cup
                      {[s EXCEPT !.name = name, !.status_id = status_id,
                                 !.last_updated = now, !.username = username] : s \in found},
                    1, 0, TRUE)

\* upsert_statement with ON CONFLICT (ub_id) DO NOTHING: the first entry wins
upsert_statement_do_nothing(tbl, seq, now, ub_id, name, status_id, username) ==
    IF \E r \in tbl : r.ub_id = ub_id
    THEN StmtResult(tbl, 0, 0, TRUE)
    ELSE IF UniqueViolation(tbl, ub_id, name, username)
         THEN StmtResult(tbl, 0, 0, FALSE)
         ELSE StmtResult(
                tbl \cup {StudentRow(seq, ub_id, name, username, status_id, now, now)},
                1, 1, TRUE)

\* upsert_statement whose WHERE clause leaves out s.status_id != $3
upsert_statement_ignores_status(tbl, seq, now, ub_id, name, status_id, username) ==
    LET found == {r \in tbl : r.ub_id = ub_id}
    IN  IF found = {}
        THEN IF UniqueViolation(tbl, ub_id, name, username)
             THEN StmtResult(tbl, 0, 0, FALSE)
             ELSE StmtResult(
                    tbl \cup {StudentRow(seq, ub_id, name, username, status_id, now, now)},
                    1, 1, TRUE)
        ELSE LET s == CHOOSE r \in found : TRUE
             IN  IF s.name # name \/ s.username # username
                 THEN IF UniqueViolation(tbl, ub_id, name, username)
                      THEN StmtResult(tbl, 0, 0, FALSE)
                      ELSE StmtResult(
                             (tbl \ {s}) \cup
                               {[s EXCEPT !.name = name, !.status_id = status_id,
                                          !.last_updated = now, !.username = username]},
                             1, 0, TRUE)
                 ELSE StmtResult(tbl, 0, 0, TRUE)

\* upsert_statement as a replace: a conflicting row is deleted and inserted anew
upsert_statement_replace(tbl, seq, now, ub_id, name, status_id, username) ==
    LET found == {r \in tbl : r.ub_id = ub_id}
    IN  IF UniqueViolation(tbl, ub_id, name, username)
        THEN StmtResult(tbl, 0, 0, FALSE)
        ELSE StmtResult(
               (tbl \ found) \cup {StudentRow(seq, ub_id, name, username, status_id, now, now)},
               1, IF found = {} THEN 1 ELSE 0, TRUE)

\* INSERT INTO students AS s (ub_id, name, status_id, username) VALUES ($1,$2,$3,$4)
\* ON CONFLICT (ub_id) DO UPDATE SET (name, status_id, last_updated, username)
\*   = ($2, $3, CURRENT_TIMESTAMP, $4)
\*   WHERE s.status_id != $3 OR s.name != $2 OR s.username != $4 OR s.username IS NULL
\* (username is NOT NULL, so the last disjunct never holds)
upsert_statement(tbl, seq, now, ub_id, name, status_id, username) ==
    LET found == {r \in tbl : r.ub_id = ub_id}
    IN  IF found = {}
        THEN IF UniqueViolation(tbl, ub_id, name, username)
             THEN StmtResult(tbl, 0, 0, FALSE)
             ELSE StmtResult(
                    tbl \cup {StudentRow(seq, ub_id, name, username, status_id, now, now)},
                    1, 1, TRUE)
        ELSE LET s == CHOOSE r \in found : TRUE
             IN  IF s.status_id # status_id \/ s.name # name \/ s.username # username
                 THEN IF UniqueViolation(tbl, ub_id, name, username)
                      THEN StmtResult(tbl, 0, 0, FALSE)
                      ELSE StmtResult(
                             (tbl \ {s}) \cup
                               {[s EXCEPT !.name = name, !.status_id = status_id,
                                          !.last_updated = now, !.username = username]},
                             1, 0, TRUE)
                 ELSE StmtResult(tbl, 0, 0, TRUE)

\* dropped_statement with WHERE ub_id = $2 alone
dropped_statement_unconditional(tbl, now, status_id, ub_id) ==
    LET hit == {r \in tbl : r.ub_id = ub_id}
    IN  StmtResult(
          (tbl \ hit) \cup
            {[r EXCEPT !.status_id = status_id, !.last_updated = now] : r \in hit},
          Cardinality(hit), 0, TRUE)

\* dropped_statement that sets status_id alone
dropped_statement_keeps_time(tbl, now, status_id, ub_id) ==
    LET hit == {r \in tbl : r.status_id # status_id /\ r.ub_id = ub_id}
    IN  StmtResult((tbl \ hit) \cup {[r EXCEPT !.status_id = status_id] : r \in hit},
                   Cardinality(hit), 0, TRUE)

\* dropped_statement with WHERE status_id = $1 in place of !=
dropped_statement_same_status(tbl, now, status_id, ub_id) ==
    LET hit == {r \in tbl : r.status_id = status_id /\ r.ub_id = ub_id}
    IN  StmtResult(
          (tbl \ hit) \cup
            {[r EXCEPT !.status_id = status_id, !.last_updated = now] : r \in hit},
          Cardinality(hit), 0, TRUE)

\* UPDATE students SET (status_id, last_updated) = ($1, CURRENT_TIMESTAMP)
\*   WHERE status_id != $1 AND ub_id = $2
dropped_statement(tbl, now, status_id, ub_id) ==
    LET hit == {r \in tbl : r.status_id # status_id /\ r.ub_id = ub_id}
    IN  StmtResult(
          (tbl \ hit) \cup
            {[r EXCEPT !.status_id = status_id, !.last_updated = now] : r \in hit},
          Cardinality(hit), 0, TRUE)

(* ------------------------------------------- back.rs: EventRecorder *)
\* what an EventRecorder call returns: Ok(n) (ok, n rows) or Err (err says what
\* failed: "io" the connection, "not_null" a NOT NULL constraint)
Ok(op, n) == [op |-> op, ok |-> TRUE, n |-> n, err |-> "none"]
Err(op, err) == [op |-> op, ok |-> FALSE, n |-> 0, err |-> err]
NoCall == Ok("none", 0)

\* no change_events call is in progress
NoBatch == [active |-> FALSE, changes |-> <<>>, done |-> 0]

\* (SELECT db_id FROM students WHERE name = $1): 0 stands for NULL (no row);
\* name is UNIQUE, so there is at most one
StudentIdByName(tbl, name) ==
    IF \E r \in tbl : r.name = name
    THEN (CHOOSE r \in tbl : r.name = name).db_id
    ELSE 0

EventRow(student_id, category_id, first_entered, satisfactory) ==
    [student_id |-> student_id, category_id |-> category_id,
     first_entered |-> first_entered, satisfactory |-> satisfactory]

\* record_statement, lines 78-85: INSERT INTO events (student_id, category_id,
\* satisfactory) VALUES ((SELECT ...), (SELECT ...), $3); both columns are NOT
\* NULL (lines 284-285), first_entered defaults to CURRENT_TIMESTAMP
record_statement(ev, tbl, cats, now, student_name, category_name, satisfactory) ==
    LET sid == StudentIdByName(tbl, student_name)
        cid == IdByName(cats, category_name)
    IN  IF sid = 0 \/ cid = 0
        THEN [events |-> ev, ret |-> Err("record", "not_null")]
        ELSE [events |-> Append(ev, EventRow(sid, cid, now, satisfactory)),
              ret |-> Ok("record", 1)]

\* date_trunc('day', t): the start of t's calendar day
date_trunc_day(t) == (t \div TicksPerDay) * TicksPerDay

\* a set of rows with distinct first_entered, ORDER BY first_entered
OrderByFirstEntered(rs) ==
    CHOOSE q \in [1..Cardinality(rs) -> rs] :
        \A i, j \in 1..Cardinality(rs) : i < j => q[i].first_entered < q[j].first_entered

\* retrieve_statement without its condition on ev.student_id
retrieve_statement_any_student(ev, tbl, cats, name, d) ==
    OrderByFirstEntered(
        {[db_id |-> i, name |-> cats[ev[i].category_id],
          first_entered |-> ev[i].first_entered, satisfactory |-> ev[i].satisfactory] :
           i \in {k \in 1..Len(ev) :
                    /\ date_trunc_day(ev[k].first_entered) <= d
                    /\ d < date_trunc_day(ev[k].first_entered) + TicksPerDay
                    /\ ev[k].category_id \in 1..Len(cats)}})

\* retrieve_statement with date_trunc('day', first_entered) < $2 in place of <=
retrieve_statement_strict(ev, tbl, cats, name, d) ==
    OrderByFirstEntered(
        {[db_id |-> i, name |-> cats[ev[i].category_id],
          first_entered |-> ev[i].first_entered, satisfactory |-> ev[i].satisfactory] :
           i \in {k \in 1..Len(ev) :
                    /\ ev[k].student_id = StudentIdByName(tbl, name)
                    /\ date_trunc_day(ev[k].first_entered) < d
                    /\ d < date_trunc_day(ev[k].first_entered) + TicksPerDay
                    /\ ev[k].category_id \in 1..Len(cats)}})

\* retrieve_statement, lines 110-124, with $2 = date.and_hms(0, 0, 0)
retrieve_statement(ev, tbl, cats, name, d) ==
    OrderByFirstEntered(
        {[db_id |-> i, name |-> cats[ev[i].category_id],
          first_entered |-> ev[i].first_entered, satisfactory |-> ev[i].satisfactory] :
           i \in {k \in 1..Len(ev) :
                    /\ ev[k].student_id = StudentIdByName(tbl, name)
                    /\ date_trunc_day(ev[k].first_entered) <= d
                    /\ d < date_trunc_day(ev[k].first_entered) + TicksPerDay
                    /\ ev[k].category_id \in 1..Len(cats)}})

\* change_statement that flips the flag of the row it names
change_statement_toggle(ev, sat, db_id) ==
    [i \in 1..Len(ev) |->
        IF i = db_id THEN [ev[i] EXCEPT !.satisfactory = ~ev[i].satisfactory] ELSE ev[i]]

\* change_statement that writes first_entered too (back to the column's zero)
change_statement_restamps(ev, sat, db_id) ==
    [i \in 1..Len(ev) |->
        IF i = db_id THEN [ev[i] EXCEPT !.satisfactory = sat, !.first_entered = 0]
        ELSE ev[i]]

\* change_statement, lines 132-136: UPDATE events SET satisfactory = $1 WHERE
\* db_id = $2 (no row with that db_id: nothing is updated, and it is no error)
change_statement(ev, sat, db_id) ==
    [i \in 1..Len(ev) |->
        IF i = db_id THEN [ev[i] EXCEPT !.satisfactory = sat] ELSE ev[i]]

\* the loop of change_events after k turns: changes[1..k] executed in order;
\* a change is the pair <<sat, db_id>>
RECURSIVE apply_changes(_, _, _)
apply_changes(ev, changes, k) ==
    IF k = 0 THEN ev
    ELSE change_statement(apply_changes(ev, changes, k - 1),
                          changes[k][1], changes[k][2])

\* change_events inside one transaction: a failure undoes the updates before it
change_events_all_or_nothing(ev, changes, k) ==
    IF k >= Len(changes)
    THEN [events |-> apply_changes(ev, changes, Len(changes)), ret |-> Ok("change", 0)]
    ELSE [events |-> ev, ret |-> Err("change", "io")]

\* EventRecorder::change_events, lines 178-184, when the first k statements are
\* executed and statement k + 1 fails (k = Len(changes): none fails): `?` returns
\* the error at once
change_events(ev, changes, k) ==
    IF k >= Len(changes)
    THEN [events |-> apply_changes(ev, changes, Len(changes)), ret |-> Ok("change", 0)]
    ELSE [events |-> apply_changes(ev, changes, k), ret |-> Err("change", "io")]

\* a row of the summary query: a username and the three counts
SummaryRow(username, p1, p2, p3) ==
    [username |-> username, p1 |-> p1, p2 |-> p2, p3 |-> p3]

\* count(CASE WHEN ev.satisfactory AND st.db_id = ev.student_id AND lo <= t < hi
\* THEN 1 END) over the events joined to student st; lo = -1 for "no lower bound"
CountCase(ev, st, lo, hi) ==
    Cardinality({i \in 1..Len(ev) :
                   /\ ev[i].satisfactory
                   /\ st.db_id = ev[i].student_id
                   /\ lo <= ev[i].first_entered
                   /\ ev[i].first_entered < hi})

\* summarize_statement that counts every event of the student, satisfactory or not
summarize_statement_counts_all(tbl, ev, sts, t1, t2, t3) ==
    IF Len(ev) = 0 THEN {}
    ELSE LET cnt(st, lo, hi) ==
                 Cardinality({i \in 1..Len(ev) :
                                /\ st.db_id = ev[i].student_id
                                /\ lo <= ev[i].first_entered
                                /\ ev[i].first_entered < hi})
         IN  {SummaryRow(st.username, cnt(st, -1, t1), cnt(st, t1, t2), cnt(st, t2, t3)) :
                st \in {r \in tbl : IdByName(sts, "enrolled") # 0
                                      /\ r.status_id = IdByName(sts, "enrolled")}}

\* summarize_statement, lines 93-102: the join `students as st, events as ev` has
\* no ON clause, so every enrolled student is paired with every event and the
\* CASEs pick the student's own; with no event at all the join is empty and
\* GROUP BY yields no group.  No ORDER BY: the rows are a set.
summarize_statement(tbl, ev, sts, t1, t2, t3) ==
    IF Len(ev) = 0 THEN {}
    ELSE {SummaryRow(st.username, CountCase(ev, st, -1, t1), CountCase(ev, st, t1, t2),
                     CountCase(ev, st, t2, t3)) :
            st \in {r \in tbl : IdByName(sts, "enrolled") # 0
                                  /\ r.status_id = IdByName(sts, "enrolled")}}

\* get_summary, lines 161-163: Local.ymd(2021, 10, 1), Local.ymd(2021, 11, 5)
\* and Local.ymd(2021, 12, 13), at 00:00:00, on the model's clock
SummaryBoundary1 == 2
SummaryBoundary2 == 3
SummaryBoundary3 == 4

\* EventRecorder::get_summary, lines 157-166: it takes no argument
get_summary(tbl, ev, sts) ==
    summarize_statement(tbl, ev, sts, SummaryBoundary1, SummaryBoundary2, SummaryBoundary3)

(* ------------------------------------------------ main.rs / back.rs flow *)
\* process::exit(1), or the `?` that carries an error up to main, which exits
Exit(reason) ==
    /\ pc' = "exited"
    /\ exit_reason' = reason

\* a failure that undoes the statements of the run
FailedStatement_rollback(tbl) == start_students

\* what the store keeps when a statement of the roster branch fails: `?` returns
\* at once and nothing undoes the statements already executed
FailedStatement(tbl) == tbl

\* a roster branch that runs without a roster too, as over an empty one
is_some_always(o) == TRUE

\* back.rs line 342: `if roster.is_some()`
is_some(o) == o.is_some

\* main lines 13-33: the roster is read, get_db_conn connects and set_up_tables
\* creates the tables that are missing (CREATE ... IF NOT EXISTS)
Connect ==
    /\ pc = "main"
    /\ \E io \in BOOLEAN :
         IF io THEN pc' = "seed" /\ UNCHANGED exit_reason
         ELSE Exit("error")
    /\ UNCHANGED <<dbvars, roster, pos, ub_ids_already_present, pickervars, ledgervars, uivars, histvars>>

\* insert_starting_data lines 310-341: a store without a metadata row is seeded by
\* four statements; k of them are executed before one fails (k = 4: none fails)
SeedStartingData ==
    /\ pc = "seed"
    /\ \E io \in BOOLEAN :
         IF ~io
         THEN Exit("error") /\ UNCHANGED dbvars
         ELSE IF metadata.exists
              THEN /\ pc' = IF is_some(roster) THEN "sync_begin" ELSE "summary"
                   /\ UNCHANGED <<exit_reason, dbvars>>
              ELSE \E k \in 0..4 :
                   /\ metadata' =
                        IF k = 0 THEN metadata
                        ELSE [exists |-> TRUE,
                              last_opened |-> IF k >= 2 THEN clock + 1 ELSE clock,
                              summary_last_updated |-> clock]
                   /\ statuses' = IF k >= 3 /\ statuses = <<>> THEN SeededStatuses
                                  ELSE statuses
                   /\ categories' = IF k >= 4 /\ categories = <<>> THEN SeededCategories
                                    ELSE categories
                   /\ clock' = clock + k
                   /\ IF k = 4
                      THEN /\ pc' = IF is_some(roster) THEN "sync_begin" ELSE "summary"
                           /\ UNCHANGED exit_reason
                      ELSE Exit("error")
                   /\ UNCHANGED <<students, student_seq, events, summary>>
    /\ UNCHANGED <<roster, pos, ub_ids_already_present, pickervars, ledgervars, uivars, histvars>>

\* insert_starting_data lines 342-366: the ub_ids in the store are collected and
\* the ids of 'enrolled' and 'dropped' are looked up (query_one fails on no row)
SyncBegin ==
    /\ pc = "sync_begin"
    /\ \E io \in BOOLEAN :
         IF io /\ IdByName(statuses, "enrolled") # 0 /\ IdByName(statuses, "dropped") # 0
         THEN /\ pc' = "sync"
              /\ pos' = 0
              /\ ub_ids_already_present' = {r.ub_id : r \in students}
              /\ UNCHANGED exit_reason
         ELSE Exit("error") /\ UNCHANGED <<pos, ub_ids_already_present>>
    /\ UNCHANGED <<dbvars, roster, pickervars, ledgervars, uivars, histvars>>

\* insert_starting_data lines 367-370: one turn of the loop over the roster
SyncUpsert ==
    /\ pc = "sync"
    /\ RosterIterator_next(roster.val, pos).some
    /\ LET it == RosterIterator_next(roster.val, pos)
           res == upsert_statement(students, student_seq, clock, it.ub_id, it.name,
                                   IdByName(statuses, "enrolled"), it.username)
       IN  /\ pos' = pos + 1
           /\ ub_ids_already_present' = ub_ids_already_present \ {it.ub_id}
           /\ \E io \in BOOLEAN :
                IF io /\ res.ok
                THEN /\ students' = res.students
                     /\ student_seq' = student_seq + 1
                     /\ clock' = clock + 1
                     /\ n_written' = n_written + res.n
                     /\ n_inserted' = n_inserted + res.ins
                     /\ UNCHANGED <<pc, exit_reason>>
                ELSE /\ students' = FailedStatement(students)
                     \* nextval is consumed by a statement the store rejects
                     /\ student_seq' = IF io THEN student_seq + 1 ELSE student_seq
                     /\ clock' = clock + 1
                     /\ Exit("error")
                     /\ UNCHANGED <<n_written, n_inserted>>
    /\ UNCHANGED <<metadata, statuses, categories, events, summary, roster, pickervars, ledgervars,
                   uivars, run, start_students, sync_ok, prev_sync_ok>>

\* insert_starting_data lines 371-378: one turn of the loop over the ub_ids the
\* roster did not name (a HashSet: any order)
SyncDrop ==
    /\ pc = "sync"
    /\ ~RosterIterator_next(roster.val, pos).some
    /\ \E ub_id \in ub_ids_already_present :
         LET res == dropped_statement(students, clock, IdByName(statuses, "dropped"), ub_id)
         IN  /\ ub_ids_already_present' = ub_ids_already_present \ {ub_id}
             /\ clock' = clock + 1
             /\ \E io \in BOOLEAN :
                  IF io
                  THEN /\ students' = res.students
                       /\ n_written' = n_written + res.n
                       /\ UNCHANGED <<pc, exit_reason>>
                  ELSE /\ students' = FailedStatement(students)
                       /\ Exit("error")
                       /\ UNCHANGED n_written
    /\ UNCHANGED <<metadata, statuses, categories, student_seq, events, summary, roster, pos, pickervars, ledgervars,
                   uivars, run, start_students, n_inserted, sync_ok, prev_sync_ok>>

\* insert_starting_data line 379: both loops are over
SyncFinish ==
    /\ pc = "sync"
    /\ ~RosterIterator_next(roster.val, pos).some
    /\ ub_ids_already_present = {}
    /\ pc' = "summary"
    /\ sync_ok' = TRUE
    /\ UNCHANGED <<dbvars, roster, pos, ub_ids_already_present, exit_reason, pickervars, ledgervars,
                   uivars, run, start_students, n_written, n_inserted, prev_sync_ok>>

\* a row of the summary table
SummaryEntry(student_id, points) == [student_id |-> student_id, points |-> points]

\* update_summary's first statement adding the count to the points it finds
summary_statement_increment(sm, ev) ==
    {[r EXCEPT !.points = r.points +
        Cardinality({i \in 1..Len(ev) :
                       ev[i].satisfactory /\ ev[i].student_id = r.student_id})]
     : r \in sm}

\* update_summary's first statement: UPDATE summary s SET (points) = (SELECT
\* count(CASE WHEN satisfactory THEN 1 END) FROM events h WHERE h.student_id = s.student_id)
summary_statement(sm, ev) ==
    {[r EXCEPT !.points =
        Cardinality({i \in 1..Len(ev) :
                       ev[i].satisfactory /\ ev[i].student_id = r.student_id})]
     : r \in sm}

\* update_summary, called at insert_starting_data line 380: two statements, k of
\* them executed before one fails (k = 2: none fails)
UpdateSummary ==
    /\ pc = "summary"
    /\ \E k \in 0..2 :
         /\ summary' = IF k >= 1 THEN summary_statement(summary, events) ELSE summary
         /\ metadata' = IF k >= 2 THEN [metadata EXCEPT !.summary_last_updated = clock + 1]
                        ELSE metadata
         /\ clock' = clock + k
         /\ IF k = 2 THEN pc' = "load" /\ UNCHANGED exit_reason
            ELSE Exit("error")
    /\ UNCHANGED <<statuses, categories, students, student_seq, events, roster, pos,
                   ub_ids_already_present, pickervars, ledgervars, uivars, histvars>>

(* ---------------------------------------------- back.rs: StudentPicker *)
\* every order of the elements of a sequence
Shuffles(bag) ==
    {p \in [1..Len(bag) -> {bag[i] : i \in 1..Len(bag)}] :
        \A i, j \in 1..Len(bag) : p[i] = p[j] => i = j}

\* StudentPicker::new: shuffled_indices = (0..students_len).collect()
StudentPicker_new(studs) == [i \in 1..Len(studs) |-> i - 1]

\* a cursor that goes back to the start one position early
reset_cursor_early(ci, len) == IF ci >= len - 1 THEN 0 ELSE ci

\* next, lines 45-47: the cursor goes back to the start when it has reached the end
reset_cursor(ci, len) == IF ci = len THEN 0 ELSE ci

\* a bag shuffled before every draw
shuffle_at_every_draw(bag, ci) == Shuffles(bag)

\* a bag shuffled again after the first draw of a pass (cur_ind <= 1)
shuffle_at_second_draw(bag, ci) == IF ci <= 1 THEN Shuffles(bag) ELSE {bag}

\* next, lines 48-50: the bag is shuffled when the cursor is at the start
shuffle_at(bag, ci) == IF ci = 0 THEN Shuffles(bag) ELSE {bag}

\* StudentPicker::next, lines 44-65; both `None` arms panic
StudentPicker_next ==
    LET ci == reset_cursor(cur_ind, Len(shuffled_indices))
    IN  \E bag \in shuffle_at(shuffled_indices, ci) :
          /\ shuffled_indices' = bag
          /\ IF ci >= Len(bag)
             THEN /\ pc' = "panicked"
                  /\ cur_ind' = ci
                  /\ UNCHANGED <<last_pick, pass_drawn, prev_pick>>
             ELSE /\ cur_ind' = ci + 1
                  /\ IF bag[ci + 1] >= Len(pool)
                     THEN /\ pc' = "panicked"
                          /\ UNCHANGED <<last_pick, pass_drawn, prev_pick>>
                     ELSE /\ pc' = pc
                          /\ last_pick' = <<pool[bag[ci + 1] + 1]>>
                          /\ prev_pick' = last_pick
                          /\ pass_drawn' =
                               Append(IF ci = 0 THEN <<>> ELSE pass_drawn,
                                      pool[bag[ci + 1] + 1])

(* ------------------------------------------------------ main.rs, front.rs *)
\* get_students without its WHERE clause: every row, dropped ones too
get_students_any_status(tbl, sts) ==
    {q \in [1..Cardinality(tbl) -> {Student_new(r.db_id, r.ub_id, r.name,
                                       r.first_entered, r.status_id, r.last_updated)
                                       : r \in tbl}] :
        \A i, j \in 1..Cardinality(tbl) : q[i] = q[j] => i = j}

\* get_students: the rows whose status is 'enrolled' (no ORDER BY: any order)
get_students(tbl, sts) ==
    LET rs == {r \in tbl : r.status_id = IdByName(sts, "enrolled")}
    IN  {q \in [1..Cardinality(rs) -> {Student_new(r.db_id, r.ub_id, r.name,
                                        r.first_entered, r.status_id, r.last_updated)
                                        : r \in rs}] :
            \A i, j \in 1..Cardinality(rs) : q[i] = q[j] => i = j}

\* front.rs lines 175-200: a recording dialog as it is built, with empty
\* fields and the status text it is given
build_recording_dialog(status_msg) == [status |-> status_msg, fields |-> "empty"]

\* no recording dialog is on the stack
NoDialog == [status |-> "", fields |-> "empty"]

\* a main that goes on while insert_starting_data is still in its loops
DbConnReturned_early == pc \in {"sync", "load"}

\* main lines 26-33: get_db_conn has returned Ok, which it does when
\* set_up_tables and insert_starting_data have (back.rs lines 240-243)
DbConnReturned == pc = "load"

\* a main that starts the UI whatever get_students returned
no_students_unchecked(studs) == FALSE

\* main line 50: `if students.len() <= 0`
no_students(studs) == Len(studs) <= 0

\* main lines 35-59: the categories and the enrolled students are read, the
\* program exits when there is no student, the picker is built and the UI starts
LoadAndStart ==
    /\ DbConnReturned
    /\ \E io \in BOOLEAN :
         IF ~io
         THEN Exit("error") /\ UNCHANGED <<pickervars, screen>>
         ELSE \E studs \in get_students(students, statuses) :
                IF no_students(studs)
                THEN Exit("no students") /\ UNCHANGED <<pickervars, screen>>
                ELSE /\ pc' = "ui"
                     /\ pool' = studs
                     /\ shuffled_indices' = StudentPicker_new(studs)
                     /\ cur_ind' = 0
                     /\ screen' = "main"
                     /\ UNCHANGED <<exit_reason, last_pick, pass_drawn, prev_pick>>
    /\ UNCHANGED <<dbvars, roster, pos, ub_ids_already_present, ledgervars, exported,
                   held, form, histvars>>

\* a dialog builder that makes its own picker state: the cursor starts again
Arc_clone_fresh(p) == [p EXCEPT !.cur_ind = 0]

\* Arc::clone(&picker), front.rs lines 99, 164, 408, 444, 613, 648, 751: the
\* dialog that is built shares the one StudentPicker cli wrapped at line 22
Arc_clone(p) == p

\* a callback that ends by building a dialog or menu (built), or that only sets
\* a status text: the picker it hands on
SharePicker(built) ==
    /\ IF built
       THEN LET p == Arc_clone([shuffled_indices |-> shuffled_indices, cur_ind |-> cur_ind])
            IN  /\ shuffled_indices' = p.shuffled_indices
                /\ cur_ind' = p.cur_ind
       ELSE UNCHANGED <<shuffled_indices, cur_ind>>
    /\ UNCHANGED <<pool, last_pick, pass_drawn, prev_pick>>

\* front.rs lines 94-104: the main menu's Record Participation button replaces
\* the menu by the recording dialog
RecordParticipation ==
    /\ pc = "ui"
    /\ screen = "main"
    /\ screen' = "recording"
    /\ form' = build_recording_dialog("Ready")
    /\ SharePicker(TRUE)
    /\ UNCHANGED <<dbvars, syncvars, ledgervars, exported, held, histvars>>

\* front.rs lines 439-447 and 643-651: the Back to main button of the recording
\* dialog and of the redeeming dialog replaces it by the main menu
BackToMain ==
    /\ pc = "ui"
    /\ screen \in {"recording", "redeem_input"}
    /\ screen' = "main"
    /\ form' = NoDialog
    /\ SharePicker(TRUE)
    /\ UNCHANGED <<dbvars, syncvars, ledgervars, exported, held, histvars>>

(* ---------------------------------------------------------- the mutexes *)
\* the two events of a guard: mutex.lock() and the drop of the guard
Lock(m) == <<"lock", m>>
Drop(m) == <<"drop", m>>

\* the callbacks that lock a mutex, by the EventRecorder or picker method called
Callbacks == {"record", "retrieve", "change", "summary", "draw"}

\* a Submit of the recording dialog whose Ok(1) arm locks the recorder again
\* while the guard of the match scrutinee is still alive
callback_locks_relock(cb) ==
    CASE cb = "record"   -> <<Lock("recorder"), Lock("client"), Drop("client"),
                              Lock("recorder"), Drop("recorder"), Drop("recorder")>>
      [] cb = "retrieve" -> <<Lock("recorder"), Lock("client"), Drop("client"),
                              Drop("recorder")>>
      [] cb = "change"   -> <<Lock("recorder"), Lock("client"), Drop("client"),
                              Drop("recorder")>>
      [] cb = "summary"  -> <<Lock("recorder"), Lock("client"), Drop("client"),
                              Drop("recorder")>>
      [] cb = "draw"     -> <<Lock("picker"), Drop("picker")>>

\* the lock() calls of a callback and the drops of their guards, in the order
\* the code makes them. The callback locks the recorder (front.rs lines 400,
\* 604, 745, 130) or the picker (line 273) in the scrutinee of a match, so that
\* guard is dropped after the arms; the EventRecorder method it calls locks the
\* client (back.rs lines 154, 169, 179, 158) and drops that guard when it
\* returns; no arm and no dialog builder locks anything
callback_locks(cb) ==
    CASE cb = "record"   -> <<Lock("recorder"), Lock("client"), Drop("client"),
                              Drop("recorder")>>
      [] cb = "retrieve" -> <<Lock("recorder"), Lock("client"), Drop("client"),
                              Drop("recorder")>>
      [] cb = "change"   -> <<Lock("recorder"), Lock("client"), Drop("client"),
                              Drop("recorder")>>
      [] cb = "summary"  -> <<Lock("recorder"), Lock("client"), Drop("client"),
                              Drop("recorder")>>
      [] cb = "draw"     -> <<Lock("picker"), Drop("picker")>>

\* the guards a drop leaves alive
DropGuards(h, taken) == h \ taken

\* a callback about to start while the guards h are alive
LockStart(h) ==
    [held |-> h, mine |-> <<>>, stuck |-> FALSE, relocked |-> FALSE, inverted |-> FALSE]

\* one event of a callback: lock() of a mutex whose guard is alive never
\* returns (the UI has one thread, so nobody else can drop that guard); any
\* other lock() takes the guard, and a drop releases it
lock_step(s, ev) ==
    IF s.stuck
    THEN s
    ELSE IF ev[1] = "lock"
         THEN IF ev[2] \in s.held
              THEN [s EXCEPT !.stuck = TRUE,
                             !.relocked = \E i \in 1..Len(s.mine) : s.mine[i] = ev[2]]
              ELSE [s EXCEPT !.held = @ \cup {ev[2]},
                             !.mine = Append(@, ev[2]),
                             !.inverted = @ \/ (ev[2] = "recorder" /\ "client" \in s.held)]
         ELSE [s EXCEPT !.held = DropGuards(@, {ev[2]}),
                        !.mine = SelectSeq(@, LAMBDA m : m # ev[2])]

RECURSIVE run_locks(_, _)
run_locks(s, evs) ==
    IF evs = <<>> THEN s ELSE run_locks(lock_step(s, Head(evs)), Tail(evs))

\* the mutexes a callback locks
callback_mutexes ==
    [cb \in Callbacks |->
        {callback_locks(cb)[i][2] : i \in 1..Len(callback_locks(cb))}]

\* every callback run from its first event to its last, no guard alive before
callback_outcome ==
    [cb \in Callbacks |-> run_locks(LockStart({}), callback_locks(cb))]

\* the callback cb runs to its end: its first lock() of a mutex waits while a
\* guard of that mutex is alive, none of its lock() calls hangs, and the guards
\* it took are dropped when it returns
WithLocks(cb) ==
    /\ held \cap callback_mutexes[cb] = {}
    /\ ~callback_outcome[cb].stuck
    /\ held' = held \cup callback_outcome[cb].held

\* front.rs lines 271-291: Enter on the student field (empty, or holding a
\* student's full name) draws the next student from the picker, puts the name
\* into the field and sets the status text
Draw ==
    /\ pc = "ui"
    /\ screen = "recording"
    /\ WithLocks("draw")
    /\ StudentPicker_next
    /\ form' = IF pc' = "panicked" THEN form
               ELSE [status |-> "Select category", fields |-> "typed"]
    /\ UNCHANGED <<dbvars, roster, pos, ub_ids_already_present, exit_reason, pool,
                   ledgervars, screen, exported, histvars>>

\* front.rs line 170: the Quit button ends siv.run() and main returns
Quit ==
    /\ pc = "ui"
    /\ screen = "main"
    /\ Exit("quit")
    /\ UNCHANGED <<dbvars, roster, pos, ub_ids_already_present, pickervars, ledgervars,
                   uivars, histvars>>

\* the operator starts the program again, on the same store and with the same
\* roster argument and file
Restart ==
    /\ pc \in {"exited", "panicked"}
    /\ run < MaxRuns
    /\ pc' = "main"
    /\ exit_reason' = ""
    /\ pos' = 0
    /\ ub_ids_already_present' = {}
    /\ pool' = <<>>
    /\ shuffled_indices' = <<>>
    /\ cur_ind' = 0
    /\ last_pick' = <<>>
    /\ pass_drawn' = <<>>
    /\ prev_pick' = <<>>
    /\ ret' = NoCall
    /\ rows' = <<>>
    /\ batch' = NoBatch
    /\ screen' = "none"
    /\ exported' = {}
    /\ held' = {}
    /\ form' = NoDialog
    /\ run' = run + 1
    /\ start_students' = students
    /\ n_written' = 0
    /\ n_inserted' = 0
    /\ sync_ok' = FALSE
    /\ prev_sync_ok' = sync_ok
    /\ UNCHANGED <<dbvars, roster>>

(* ------------------------------------------------------------ the program *)
\* students.db_id of the rows a store holds when a behaviour starts
InitDbId(ub_id) == IF ub_id = "u1" THEN 1 ELSE 2

\* the students tables earlier runs can have left: any rows that satisfy the
\* table's constraints, enrolled (1) or dropped (2)
StoredTables ==
    {T \in SUBSET {StudentRow(InitDbId(u), u, n, un, st, 0, 0) :
                     u \in UbIds, n \in Names, un \in Usernames,
                     st \in {EnrolledId, DroppedId}} :
        TableValid(T)}

\* the history starts with the first run
HistoryInit ==
    /\ run = 1
    /\ start_students = students
    /\ n_written = 0
    /\ n_inserted = 0
    /\ sync_ok = FALSE
    /\ prev_sync_ok = FALSE

\* the process as main starts
ProcessInit ==
    /\ pc = "main"
    /\ exit_reason = ""
    /\ pos = 0
    /\ ub_ids_already_present = {}
    /\ pool = <<>>
    /\ shuffled_indices = <<>>
    /\ cur_ind = 0
    /\ last_pick = <<>>
    /\ pass_drawn = <<>>
    /\ prev_pick = <<>>
    /\ ret = NoCall
    /\ rows = <<>>
    /\ batch = NoBatch
    /\ screen = "none"
    /\ exported = {}
    /\ held = {}
    /\ form = NoDialog

\* the process when front::cli starts the UI over the students studs
UiInit(studs) ==
    /\ pc = "ui"
    /\ exit_reason = ""
    /\ pos = 0
    /\ ub_ids_already_present = {}
    /\ pool = studs
    /\ shuffled_indices = StudentPicker_new(studs)
    /\ cur_ind = 0
    /\ last_pick = <<>>
    /\ pass_drawn = <<>>
    /\ prev_pick = <<>>
    /\ ret = NoCall
    /\ rows = <<>>
    /\ batch = NoBatch
    /\ exported = {}
    /\ held = {}

\* a store no run has touched yet
FreshStore ==
    /\ metadata = [exists |-> FALSE, last_opened |-> 0, summary_last_updated |-> 0]
    /\ statuses = <<>>
    /\ categories = <<>>
    /\ students = {}
    /\ student_seq = 1
    /\ events = <<>>
    /\ summary = {}
    /\ clock = 1

\* a store that earlier runs have seeded and filled
SeededStore(tbl) ==
    /\ metadata = [exists |-> TRUE, last_opened |-> 0, summary_last_updated |-> 0]
    /\ statuses = SeededStatuses
    /\ categories = SeededCategories
    /\ students = tbl
    /\ student_seq = Cardinality(UbIds) + 1
    /\ events = <<>>
    /\ summary = {}
    /\ clock = 1

Init ==
    /\ FreshStore \/ \E tbl \in StoredTables : SeededStore(tbl)
    /\ roster \in {NoRoster} \cup {SomeRoster(read_roster(f)) : f \in RosterFiles}
    /\ ProcessInit
    /\ HistoryInit

Next ==
    \/ Connect
    \/ SeedStartingData
    \/ SyncBegin
    \/ SyncUpsert
    \/ SyncDrop
    \/ SyncFinish
    \/ UpdateSummary
    \/ LoadAndStart
    \/ RecordParticipation
    \/ BackToMain
    \/ Draw
    \/ Quit
    \/ Restart

Spec == Init /\ [][Next]_vars

(* ------------------------------------------------------------ the ledger *)
\* what the operator can type into the student and category fields
TypedNames == Names \cup {"Zed"}
TypedCategories == {"homework", "question", "nonsense"}
Days == 0..(MaxTime \div TicksPerDay)

\* the layer a callback leaves on top when its EventRecorder call returned Err:
\* it sets a status text and nothing else
ScreenOnError_main(scr) == "main"

ScreenOnError(scr) == scr

\* front.rs lines 159-167: the main menu's Redeem Points button replaces the menu
\* by the redeeming dialog
RedeemPoints ==
    /\ pc = "ui"
    /\ screen = "main"
    /\ screen' = "redeem_input"
    /\ SharePicker(TRUE)
    /\ UNCHANGED <<dbvars, syncvars, ledgervars, exported, held, form, histvars>>

\* front.rs lines 106-156: the main menu's Export Summary button puts the file
\* name dialog on top of the menu
ExportSummary ==
    /\ pc = "ui"
    /\ screen = "main"
    /\ screen' = "export"
    /\ UNCHANGED <<dbvars, syncvars, pickervars, ledgervars, exported, held, form, histvars>>

\* the Ok button of the export message (front.rs line 129) and of the
\* "Database changes recorded" info (line 754) pops it: the main menu is on top
Dismiss ==
    /\ pc = "ui"
    /\ screen \in {"export_msg", "info"}
    /\ screen' = "main"
    /\ exported' = {}
    /\ UNCHANGED <<dbvars, syncvars, pickervars, ledgervars, held, form, histvars>>

\* a Submit callback that takes every Ok for a recorded event
recording_submit_any_ok(f, r) ==
    IF r.ok
    THEN build_recording_dialog("Submitted successfully")
    ELSE [f EXCEPT !.status = IF r.err = "not_null" THEN "DB Error" ELSE "Error"]

\* front.rs lines 400-434: what the Submit callback makes of the dialog f when
\* record returns r: Ok(1) replaces it by a new one, Ok(n) for another n and
\* Err set its status text (a database error and any other error differently)
recording_submit(f, r) ==
    IF r.ok
    THEN IF r.n = 1
         THEN build_recording_dialog("Submitted successfully")
         ELSE [f EXCEPT !.status = "Problem: submitted"]
    ELSE [f EXCEPT !.status = IF r.err = "not_null" THEN "DB Error" ELSE "Error"]

\* the Submit button of the recording dialog, front.rs lines 393-435, when
\* EventRecorder::record returns r: the recorder and, inside record, the client
\* are locked for the call; on Ok(1) the dialog is replaced by a fresh recording
\* dialog, otherwise only the status text changes
SubmitCallback(r) ==
    /\ pc = "ui"
    /\ screen = "recording"
    /\ WithLocks("record")
    /\ ret' = r
    /\ screen' = IF r.ok THEN "recording" ELSE ScreenOnError(screen)
    /\ form' = recording_submit([form EXCEPT !.fields = "typed"], r)
    /\ SharePicker(r.ok /\ r.n = 1)
    /\ UNCHANGED <<syncvars, rows, batch, exported, histvars>>

\* Submit with the fields' contents: EventRecorder::record (back.rs lines
\* 153-155) executes record_statement
Record(student_name, category_name, satisfactory) ==
    /\ Len(events) < MaxEvents
    /\ clock < MaxTime
    /\ \E io \in BOOLEAN :
         LET res == record_statement(events, students, categories, clock,
                                     student_name, category_name, satisfactory)
         IN  IF io
             THEN /\ events' = res.events
                  /\ SubmitCallback(res.ret)
             ELSE /\ events' = events
                  /\ SubmitCallback(Err("record", "io"))
    /\ clock' = clock + 1
    /\ UNCHANGED <<metadata, statuses, categories, students, student_seq, summary>>

RecordEvent ==
    \E n \in TypedNames, c \in TypedCategories, v \in BOOLEAN : Record(n, c, v)

\* the Retrieve button of the redeeming dialog, front.rs lines 598-639:
\* EventRecorder::retrieve_events (back.rs lines 168-176) with the student field
\* and the parsed date; on Ok the dialog is replaced by the chooser over the rows
Retrieve(name, day) ==
    /\ pc = "ui"
    /\ screen = "redeem_input"
    /\ WithLocks("retrieve")
    /\ \E io \in BOOLEAN :
         IF io
         THEN /\ rows' = retrieve_statement(events, students, categories, name,
                                            day * TicksPerDay)
              /\ ret' = Ok("retrieve", 0)
              /\ screen' = "redeem_choose"
         ELSE /\ rows' = rows
              /\ ret' = Err("retrieve", "io")
              /\ screen' = ScreenOnError(screen)
    /\ SharePicker(ret'.ok)
    /\ UNCHANGED <<dbvars, syncvars, batch, exported, form, histvars>>

RetrieveEvents == \E n \in TypedNames, d \in Days : Retrieve(n, d)

\* a Submit that maps every row to its checkbox (map in place of filter_map)
redeem_changes_every_row(rs, checked) ==
    [j \in 1..Len(rs) |-> <<checked[j], rs[j].db_id>>]

\* front.rs lines 730-742: the changes the chooser's Submit builds from the rows
\* it was given and its checkboxes: the rows whose checkbox differs from the
\* retrieved flag, in the rows' order, as (submitted, db_id)
redeem_changes(rs, checked) ==
    LET idx == SelectSeq([i \in 1..Len(rs) |-> i],
                         LAMBDA i : rs[i].satisfactory # checked[i])
    IN  [j \in 1..Len(idx) |-> <<checked[idx[j]], rs[idx[j]].db_id>>]

\* the Submit button of the chooser, front.rs lines 729-771: change_events with
\* the changes of the checkboxes `checked`, of which the first k are executed; on
\* Ok the main menu and an info dialog replace the chooser (and its rows)
ChangeEvents(checked, k) ==
    /\ pc = "ui"
    /\ screen = "redeem_choose"
    /\ WithLocks("change")
    /\ LET res == change_events(events, redeem_changes(rows, checked), k)
       IN  /\ events' = res.events
           /\ ret' = res.ret
           /\ IF res.ret.ok
              THEN screen' = "info" /\ rows' = <<>>
              ELSE screen' = ScreenOnError(screen) /\ rows' = rows
    /\ UNCHANGED <<metadata, statuses, categories, students, student_seq, summary,
                   clock, syncvars, batch, exported, form, histvars>>
    /\ SharePicker(ret'.ok)

SubmitChanges ==
    \E checked \in [1..Len(rows) -> BOOLEAN] :
        \E k \in 0..Len(redeem_changes(rows, checked)) : ChangeEvents(checked, k)

\* the Submit button of the file name dialog, front.rs lines 122-148: when the
\* file cannot be created only the status text changes; otherwise the dialog is
\* replaced by a message, get_summary is called and export_summary writes its
\* rows to the file (gate.rs lines 57-76), and the message tells the outcome
ExportSubmit ==
    /\ pc = "ui"
    /\ screen = "export"
    /\ \E created \in BOOLEAN :
         IF ~created
         THEN UNCHANGED <<ret, exported, screen, held>>
         ELSE /\ WithLocks("summary")
              /\ screen' = "export_msg"
              /\ \E io \in BOOLEAN :
                   IF io
                   THEN /\ exported' = get_summary(students, events, statuses)
                        /\ ret' = Ok("summary", Cardinality(exported'))
                   ELSE /\ exported' = {}
                        /\ ret' = Err("summary", "io")
    /\ UNCHANGED <<dbvars, syncvars, pickervars, rows, batch, form, histvars>>

\* time passes while the operator does nothing
Tick ==
    /\ pc = "ui"
    /\ clock < MaxTime
    /\ clock' = clock + 1
    /\ UNCHANGED <<metadata, statuses, categories, students, student_seq, events,
                   summary, syncvars, pickervars, ledgervars, uivars, histvars>>

\* the students the ledger runs over: one enrolled, one dropped
LedgerStudents ==
    {StudentRow(1, "u1", "Ann", "ann", EnrolledId, 0, 0),
     StudentRow(2, "u2", "Bob", "bob", DroppedId, 0, 0)}

\* the UI as main starts it over a seeded store: the main menu
LedgerInit ==
    /\ SeededStore(LedgerStudents)
    /\ roster = NoRoster
    /\ \E studs \in get_students(students, statuses) : UiInit(studs)
    /\ screen = "main"
    /\ form = NoDialog
    /\ HistoryInit

LedgerNext ==
    \/ RecordParticipation
    \/ RedeemPoints
    \/ ExportSummary
    \/ BackToMain
    \/ Dismiss
    \/ RecordEvent
    \/ RetrieveEvents
    \/ SubmitChanges
    \/ ExportSubmit
    \/ Tick

LedgerSpec == LedgerInit /\ [][LedgerNext]_vars

\* the recording dialog and the export alone: events are recorded and summed up
ExportNext ==
    \/ RecordParticipation
    \/ ExportSummary
    \/ BackToMain
    \/ Dismiss
    \/ RecordEvent
    \/ ExportSubmit
    \/ Tick

ExportSpec == LedgerInit /\ [][ExportNext]_vars

(* ------------------------------------------------- the summary rebuild *)
\* the events tables a ledger can have left: up to MaxEvents homework events of
\* the two students, recorded at the clock values 1, 2, ...
StoredEvents ==
    {[i \in 1..Len(q) |->
        EventRow(q[i][1], IdByName(SeededCategories, "homework"), i, q[i][2])] :
       q \in SeqsUpTo({1, 2} \X BOOLEAN, MaxEvents)}

\* the summary tables update_summary can find: no statement of the program
\* inserts a row (back.rs has no INSERT INTO summary), so a row is there only if
\* it was put into the store from outside, with any points; student_id is UNIQUE
StoredSummaries ==
    {T \in SUBSET {SummaryEntry(sid, p) : sid \in {1, 2}, p \in 0..MaxEvents} :
        \A e1, e2 \in T : e1.student_id = e2.student_id => e1 = e2}

\* the program started, with or without a roster, on a store that holds
\* students, events and summary rows
SummaryInit ==
    /\ \E ev \in StoredEvents, sm \in StoredSummaries :
         /\ metadata = [exists |-> TRUE, last_opened |-> 0, summary_last_updated |-> 0]
         /\ statuses = SeededStatuses
         /\ categories = SeededCategories
         /\ students = LedgerStudents
         /\ student_seq = Cardinality(UbIds) + 1
         /\ events = ev
         /\ summary = sm
         /\ clock = Len(ev) + 1
    /\ roster \in {NoRoster,
                    SomeRoster(read_roster(<<[ub_id |-> "u1", name |-> "Ann",
                                              username |-> "ann"]>>))}
    /\ ProcessInit
    /\ HistoryInit

SummarySpec == SummaryInit /\ [][Next]_vars

(* ----------------------------------------- the program with its ledger *)
\* the program started on a fresh store, on one with the ledger's students or
\* on one with Ann alone; without a roster, with an empty roster, with one that
\* enrols Bob only or with one that gives Ann another username
ProgramInit ==
    /\ \/ FreshStore
       \/ SeededStore(LedgerStudents)
       \/ SeededStore({r \in LedgerStudents : r.status_id = EnrolledId})
    /\ roster \in {NoRoster,
                    SomeRoster(read_roster(<<>>)),
                    SomeRoster(read_roster(<<[ub_id |-> "u2", name |-> "Bob",
                                              username |-> "bob"]>>)),
                    SomeRoster(read_roster(<<[ub_id |-> "u1", name |-> "Ann",
                                              username |-> "bob"]>>))}
    /\ ProcessInit
    /\ HistoryInit

\* main, and every callback of the UI it starts
ProgramNext == Next \/ LedgerNext

ProgramSpec == ProgramInit /\ [][ProgramNext]_vars

(* ------------------------------------------------------------ the picker *)
PoolUbIds == <<"u1", "u2", "u3", "u4", "u5">>
PoolNames == <<"Ann", "Bob", "Cid", "Dee", "Eve">>
PoolStudent(i) == Student_new(i, PoolUbIds[i], PoolNames[i], 0, EnrolledId, 0)

\* the lists of distinct students a picker can be built from, the empty one too
Pools ==
    {q \in SeqsUpTo({PoolStudent(i) : i \in 1..MaxPool}, MaxPool) :
        \A i, j \in 1..Len(q) : q[i] = q[j] => i = j}

\* get_student_picker(students) on any list of students, with the recording
\* dialog open
PickerInit ==
    /\ SeededStore({})
    /\ roster = NoRoster
    /\ \E studs \in Pools : UiInit(studs)
    /\ screen = "recording"
    /\ form = build_recording_dialog("Ready")
    /\ HistoryInit

PickerSpec == PickerInit /\ [][Draw]_vars

(* ------------------------------------------- change_events, step by step *)
\* a change_events whose loop locks the client anew for every statement
\* (self.client.lock().unwrap().execute(..) in the loop's body)
guard_after_statement_dropped(h) == h \ {"client"}

\* back.rs line 179: `let mut client = self.client.lock().unwrap()` is a local
\* of change_events, so the guard is alive after every statement of the loop
guard_after_statement(h) == h

\* the chooser's Submit, front.rs lines 729-744, up to the loop of
\* change_events: the changes are built, event_recorder.lock() and
\* self.client.lock() (back.rs line 179) take their guards
ChangeLock ==
    /\ pc = "ui"
    /\ screen = "redeem_choose"
    /\ ~batch.active
    /\ held \cap {"recorder", "client"} = {}
    /\ held' = held \cup {"recorder", "client"}
    /\ \E checked \in [1..Len(rows) -> BOOLEAN] :
         batch' = [active |-> TRUE, changes |-> redeem_changes(rows, checked), done |-> 0]
    /\ UNCHANGED <<dbvars, syncvars, pickervars, ret, rows, screen, exported, form, histvars>>

\* one turn of the loop, back.rs lines 180-182: the statement is executed, or
\* it fails and `?` returns the error: the guards are dropped and the callback
\* sets the status text (front.rs lines 756-769)
ChangeExecute ==
    /\ batch.active
    /\ batch.done < Len(batch.changes)
    /\ \E io \in BOOLEAN :
         IF io
         THEN /\ events' = change_statement(events, batch.changes[batch.done + 1][1],
                                            batch.changes[batch.done + 1][2])
              /\ batch' = [batch EXCEPT !.done = batch.done + 1]
              /\ held' = guard_after_statement(held)
              /\ UNCHANGED <<ret, screen>>
         ELSE /\ events' = events
              /\ batch' = NoBatch
              /\ held' = DropGuards(held, {"recorder", "client"})
              /\ ret' = Err("change", "io")
              /\ screen' = ScreenOnError(screen)
    /\ UNCHANGED <<metadata, statuses, categories, students, student_seq, summary, clock,
                   syncvars, pickervars, rows, exported, form, histvars>>

\* the loop is over, back.rs line 183: Ok(()) is returned, the guards are
\* dropped and the callback replaces the chooser by the main menu and an info
\* dialog (front.rs lines 746-754)
ChangeReturn ==
    /\ batch.active
    /\ batch.done = Len(batch.changes)
    /\ batch' = NoBatch
    /\ held' = DropGuards(held, {"recorder", "client"})
    /\ ret' = Ok("change", 0)
    /\ screen' = "info"
    /\ rows' = <<>>
    /\ SharePicker(TRUE)
    /\ UNCHANGED <<dbvars, syncvars, exported, form, histvars>>

\* one run of main and the callbacks of its UI that call the store, with
\* change_events taken statement by statement
GatewayNext ==
    \/ Connect
    \/ SeedStartingData
    \/ SyncBegin
    \/ SyncUpsert
    \/ SyncDrop
    \/ SyncFinish
    \/ UpdateSummary
    \/ LoadAndStart
    \/ RecordParticipation
    \/ BackToMain
    \/ RedeemPoints
    \/ ExportSummary
    \/ Dismiss
    \/ RecordEvent
    \/ RetrieveEvents
    \/ ExportSubmit
    \/ Tick
    \/ ChangeLock
    \/ ChangeExecute
    \/ ChangeReturn

\* the program as it starts, or its UI over the ledger's store
GatewayInit == ProgramInit \/ LedgerInit

GatewaySpec == GatewayInit /\ [][GatewayNext]_vars

(* ------------------------------------------ the recording dialog's Submit *)
\* the values of Result<u64, postgres::Error> a record call can hand to Submit
RecordResults ==
    {Ok("record", n) : n \in 0..MaxCount}
        \cup {Err("record", "io"), Err("record", "not_null")}

\* Submit over a recorder that returns any of them and leaves the store alone
SubmitReturns ==
    \E r \in RecordResults : SubmitCallback(r) /\ UNCHANGED dbvars

\* the recording dialog in use: draws and submits in any order
SubmitSpec == PickerInit /\ [][Draw \/ SubmitReturns]_vars

(* ------------------------------------------------- roster reconciliation *)
\* the positions of the roster, and the ub_ids it names
RosterDom == 1..Len(roster.val.ub_ids)
RosterUbIds == {roster.val.ub_ids[i] : i \in RosterDom}

\* the row of table tbl for a ub_id (the table holds at most one)
RowOf(tbl, ub_id) == CHOOSE r \in tbl : r.ub_id = ub_id
HasRow(tbl, ub_id) == \E r \in tbl : r.ub_id = ub_id

\* C1: when the roster branch has run to its end with a roster and the program is
\* started again with the same roster, the second run writes no student row: no
\* statement reports an affected row and the students table is what it was.
C1_SecondRunWritesNothing ==
    (run >= 2 /\ prev_sync_ok /\ sync_ok) =>
        (n_written = 0 /\ n_inserted = 0 /\ students = start_students)

\* C1, on the rosters that name no ub_id twice with different fields: the second
\* run writes nothing.
C1_SecondRunWritesNothingDistinct ==
    (run >= 2 /\ prev_sync_ok /\ sync_ok
        /\ \A i, j \in RosterDom :
             roster.val.ub_ids[i] = roster.val.ub_ids[j] =>
                /\ roster.val.names[i] = roster.val.names[j]
                /\ roster.val.usernames[i] = roster.val.usernames[j]) =>
        (n_written = 0 /\ n_inserted = 0 /\ students = start_students)

\* C2: after a successful synchronize, every student whose ub_id the roster does
\* not name is dropped; one that was enrolled has last_updated bumped; and an
\* enrolled student the roster names with its stored name and username only is
\* the same row as before (last_updated included).
C2_DropDetection ==
    (sync_ok /\ roster.is_some) =>
        /\ \A r \in students : r.ub_id \notin RosterUbIds => r.status_id = DroppedId
        /\ \A r0 \in start_students :
             (r0.status_id = EnrolledId /\ r0.ub_id \notin RosterUbIds) =>
                /\ HasRow(students, r0.ub_id)
                /\ RowOf(students, r0.ub_id).status_id = DroppedId
                /\ RowOf(students, r0.ub_id).last_updated > r0.last_updated
        /\ \A r0 \in start_students :
             (/\ r0.status_id = EnrolledId
              /\ r0.ub_id \in RosterUbIds
              /\ \A i \in RosterDom :
                   roster.val.ub_ids[i] = r0.ub_id =>
                      /\ roster.val.names[i] = r0.name
                      /\ roster.val.usernames[i] = r0.username) =>
                r0 \in students

C2_Witness ==
    /\ sync_ok /\ roster.is_some
    /\ \E a, b \in start_students :
         /\ a.status_id = EnrolledId /\ b.status_id = EnrolledId
         /\ a.ub_id \in RosterUbIds /\ b.ub_id \notin RosterUbIds
         /\ a \in students
         /\ RowOf(students, b.ub_id).status_id = DroppedId

\* C3: synchronize with an empty roster leaves every student that was enrolled
\* dropped and inserts no row.
C3_EmptyRoster ==
    (sync_ok /\ roster.is_some /\ Len(roster.val.ub_ids) = 0) =>
        /\ n_inserted = 0
        /\ {r.ub_id : r \in students} = {r.ub_id : r \in start_students}
        /\ \A r \in students : r.status_id = DroppedId
        /\ n_written = Cardinality({r \in start_students : r.status_id = EnrolledId})

C3_Witness ==
    /\ sync_ok /\ roster.is_some /\ Len(roster.val.ub_ids) = 0
    /\ \E r \in start_students : r.status_id = EnrolledId
    /\ \E r \in start_students : r.status_id = DroppedId

\* a step of the upsert loop that the store accepted
UpsertStepOk == pc = "sync" /\ pos' = pos + 1 /\ pc' = "sync"

\* C4: an upsert whose ub_id is stored, enrolled, with the same name and username
\* writes nothing; one whose stored row differs in name, username or status writes
\* the roster's name and username, status enrolled and a later last_updated, and
\* keeps db_id and first_entered; and in every step of the program a row's
\* last_updated changes only together with its name, username or status.
C4_WriteOnlyOnDifference ==
    [][ /\ UpsertStepOk =>
            LET it == RosterIterator_next(roster.val, pos)
            IN  HasRow(students, it.ub_id) =>
                  LET s == RowOf(students, it.ub_id)
                  IN  IF s.status_id = EnrolledId /\ s.name = it.name
                           /\ s.username = it.username
                      THEN students' = students /\ n_written' = n_written
                      ELSE /\ n_written' = n_written + 1
                           /\ students' \ {RowOf(students', it.ub_id)} = students \ {s}
                           /\ RowOf(students', it.ub_id) =
                                [s EXCEPT !.name = it.name, !.username = it.username,
                                          !.status_id = EnrolledId,
                                          !.last_updated = clock]
                           /\ clock > s.last_updated
        /\ \A r \in students : \A q \in students' :
             (q.ub_id = r.ub_id /\ q.last_updated # r.last_updated) =>
                (q.name # r.name \/ q.username # r.username \/ q.status_id # r.status_id)
      ]_vars

C4_Witness ==
    /\ pc = "sync" /\ pos = 2 /\ n_written = 1 /\ n_inserted = 0
    /\ roster.val.ub_ids[1] # roster.val.ub_ids[2]
    /\ \E r \in start_students : r \in students /\ r.status_id = EnrolledId
    /\ \E r \in start_students : r \notin students

\* C5: after a successful synchronize there is exactly one row for every ub_id the
\* roster names, holding the name and username of the last roster entry with
\* that ub_id, enrolled.
C5_LastOneWins ==
    (sync_ok /\ roster.is_some) =>
        \A i \in RosterDom :
            (\A j \in RosterDom : roster.val.ub_ids[j] = roster.val.ub_ids[i] => j <= i) =>
                /\ Cardinality({r \in students : r.ub_id = roster.val.ub_ids[i]}) = 1
                /\ RowOf(students, roster.val.ub_ids[i]).name = roster.val.names[i]
                /\ RowOf(students, roster.val.ub_ids[i]).username = roster.val.usernames[i]
                /\ RowOf(students, roster.val.ub_ids[i]).status_id = EnrolledId

C5_Witness ==
    /\ sync_ok /\ roster.is_some /\ Len(roster.val.ub_ids) = 2
    /\ roster.val.ub_ids[1] = roster.val.ub_ids[2]
    /\ roster.val.names[1] # roster.val.names[2]
    /\ roster.val.usernames[1] # roster.val.usernames[2]
    /\ ~HasRow(start_students, roster.val.ub_ids[1])

\* C6: a statement of the roster branch that fails ends the run with that error
\* and leaves the students table as the statements before it made it; after the
\* exit no statement runs, so the upserts and drops that were left stay undone.
C6_FailFastNoRollback ==
    [][ /\ (pc = "sync" /\ pc' = "exited") =>
              (exit_reason' = "error" /\ students' = students /\ ~sync_ok')
        /\ pc = "exited" =>
              (students' = students /\ clock' = clock /\ student_seq' = student_seq)
      ]_vars

C6_Witness ==
    /\ pc = "exited" /\ exit_reason = "error" /\ ~sync_ok /\ roster.is_some
    /\ pos >= 1
    /\ n_written > 0 /\ students # start_students
    /\ RosterIterator_next(roster.val, pos).some \/ ub_ids_already_present # {}

(* ------------------------------------------------------ picker and ledger *)
\* C7: within a shuffle pass no student is returned twice and a complete pass
\* returns every student of the pool; a pass starts only at the first draw or
\* when the pass before it is complete, so the passes are the draws
\* k*N+1 .. (k+1)*N.
C7_PassIsPermutation ==
    /\ [](Len(pool) >= 1 =>
            /\ \A i, j \in 1..Len(pass_drawn) : pass_drawn[i] = pass_drawn[j] => i = j
            /\ {pass_drawn[i] : i \in 1..Len(pass_drawn)} \subseteq
                  {pool[i] : i \in 1..Len(pool)}
            /\ Len(pass_drawn) = Len(pool) =>
                  {pass_drawn[i] : i \in 1..Len(pass_drawn)} = {pool[i] : i \in 1..Len(pool)})
    /\ [][ (Len(pool) >= 1 /\ <<last_pick, pass_drawn, cur_ind>>' # <<last_pick, pass_drawn, cur_ind>>) =>
             IF Len(pass_drawn) < Len(pool)
             THEN pass_drawn' = Append(pass_drawn, last_pick'[1])
             ELSE pass_drawn' = <<last_pick'[1]>>
         ]_vars

C7_Witness ==
    /\ Len(pool) = 3
    /\ Len(pass_drawn) = 3
    /\ pass_drawn[1] = pool[3] /\ pass_drawn[3] = pool[2]

\* C8: a picker built from an empty list of students does not panic when next()
\* is called on it.
C8_EmptyPoolNeverPanics ==
    Len(pool) = 0 => pc # "panicked"

\* C9: record with a student name or a category name that no row has returns
\* Ok(0) and inserts no event (unless the connection fails).
C9_UnknownNameGivesZero ==
    [][ \A n \in TypedNames, c \in TypedCategories, v \in BOOLEAN :
          (/\ Record(n, c, v)
           /\ StudentIdByName(students, n) = 0 \/ IdByName(categories, c) = 0
           /\ ret'.err # "io") =>
              (ret'.ok /\ ret'.n = 0 /\ events' = events)
      ]_vars

\* C10: a record(s, c, v) that succeeds returns 1 and appends one event, leaving
\* the stored events as they were; retrieve_events(s, today) then returns what it
\* returned before followed by the new event, which has category c, flag v and
\* a timestamp within today.
C10_RecordThenRetrieve ==
    [][ \A n \in TypedNames, c \in TypedCategories, v \in BOOLEAN :
          (Record(n, c, v) /\ ret'.ok) =>
              LET today == date_trunc_day(clock)
                  was == retrieve_statement(events, students, categories, n, today)
                  is == retrieve_statement(events', students', categories', n, today)
              IN  /\ ret'.n = 1
                  /\ Len(events') = Len(events) + 1
                  /\ SubSeq(events', 1, Len(events)) = events
                  /\ Len(is) = Len(was) + 1
                  /\ SubSeq(is, 1, Len(was)) = was
                  /\ is[Len(is)].db_id = Len(events')
                  /\ is[Len(is)].name = c
                  /\ is[Len(is)].satisfactory = v
                  /\ today <= is[Len(is)].first_entered
                  /\ is[Len(is)].first_entered < today + TicksPerDay
      ]_vars

C10_Witness ==
    /\ ret.op = "record" /\ ret.ok
    /\ Len(events) = 2
    /\ events[1].student_id = events[2].student_id
    /\ events[1].satisfactory # events[2].satisfactory
    /\ date_trunc_day(events[1].first_entered) = date_trunc_day(events[2].first_entered)

(* ------------------------------------- ledger: retrieval and correction *)
\* the events of the student named n (none when no student has that name)
EventsOf(n) ==
    {i \in 1..Len(events) :
        StudentIdByName(students, n) # 0 /\ events[i].student_id = StudentIdByName(students, n)}

\* C11: for every name and every day, retrieve_events returns one row for each
\* event of that student with day 00:00 <= first_entered < day+1 00:00 and no
\* other row; a row shows its event's category, timestamp and flag; and the rows
\* are in ascending order of first_entered.
C11_RetrieveWindow ==
    \A n \in TypedNames, d \in Days :
        LET r == retrieve_statement(events, students, categories, n, d * TicksPerDay)
        IN  /\ {r[i].db_id : i \in 1..Len(r)} =
                  {i \in EventsOf(n) :
                      /\ d * TicksPerDay <= events[i].first_entered
                      /\ events[i].first_entered < (d + 1) * TicksPerDay}
            /\ \A i, j \in 1..Len(r) : r[i].db_id = r[j].db_id => i = j
            /\ \A i \in 1..Len(r) :
                  /\ r[i].first_entered = events[r[i].db_id].first_entered
                  /\ r[i].satisfactory = events[r[i].db_id].satisfactory
                  /\ r[i].name = categories[events[r[i].db_id].category_id]
            /\ \A i, j \in 1..Len(r) : i < j => r[i].first_entered <= r[j].first_entered

\* the chooser shows one of two events of a student: the other is of another day
C11_Witness ==
    /\ screen = "redeem_choose" /\ ret.op = "retrieve" /\ ret.ok
    /\ Len(rows) = 1 /\ Len(events) = 2
    /\ events[1].student_id = events[2].student_id
    /\ date_trunc_day(events[1].first_entered) # date_trunc_day(events[2].first_entered)

\* C12: a change_events call whose statement k+1 is the first to fail returns
\* that error (and Ok only when none fails); the events named by the changes at
\* positions 1..k have the submitted flag, the events named at positions after
\* k are as they were, and so is every event the list does not name; nothing
\* but the flag of an event changes.
C12_FailFastNoRollback ==
    [][ \A checked \in [1..Len(rows) -> BOOLEAN] :
          \A k \in 0..Len(redeem_changes(rows, checked)) :
            ChangeEvents(checked, k) =>
              LET ch == redeem_changes(rows, checked)
              IN  /\ ret'.ok <=> k = Len(ch)
                  /\ ~ret'.ok => ret'.op = "change"
                  /\ Len(events') = Len(events)
                  /\ \A j \in 1..Len(ch) :
                        IF j <= k
                        THEN events'[ch[j][2]] =
                               [events[ch[j][2]] EXCEPT !.satisfactory = ch[j][1]]
                        ELSE events'[ch[j][2]] = events[ch[j][2]]
                  /\ \A i \in 1..Len(events) :
                        (\A j \in 1..Len(ch) : ch[j][2] # i) => events'[i] = events[i]
      ]_vars

\* a Submit of two changes failed at the second: the first event no longer has
\* the flag the chooser was given, the second still has
C12_Witness ==
    /\ screen = "redeem_choose" /\ ret.op = "change" /\ ~ret.ok
    /\ Len(rows) = 2
    /\ events[rows[1].db_id].satisfactory # rows[1].satisfactory
    /\ events[rows[2].db_id].satisfactory = rows[2].satisfactory

\* the events after change_events([(v, id)]) has succeeded on the events ev
Changed(ev, v, id) == change_events(ev, <<<<v, id>>>>, 1).events

\* the flag retrieve_events reports for event id of the events ev, asked with a
\* name of the event's student and the event's day (a set: one flag per row)
ReportedFlag(ev, id) ==
    {r.satisfactory :
       r \in {q \in UNION {LET got == retrieve_statement(ev, students, categories, n,
                                        date_trunc_day(ev[id].first_entered))
                            IN  {got[i] : i \in 1..Len(got)}
                            : n \in {m \in TypedNames :
                                       StudentIdByName(students, m) = ev[id].student_id}} :
                 q.db_id = id}}

\* C13: for every stored event id and flag v, change_events([(v, id)]) leaves the
\* event with flag v and everything else as it was; the same change applied
\* twice, in two calls or in one list, gives what one application gives;
\* (false, id) then (true, id) gives back the events as they were when the event
\* was satisfactory; and retrieve_events then reports v for the event.  So does
\* every successful Submit of the chooser that changes one event.
C13_CorrectionIdempotent ==
    /\ [](\A id \in 1..Len(events), v \in BOOLEAN :
            /\ Changed(events, v, id) = [events EXCEPT ![id].satisfactory = v]
            /\ Changed(Changed(events, v, id), v, id) = Changed(events, v, id)
            /\ change_events(events, <<<<v, id>>, <<v, id>>>>, 2).events =
                  Changed(events, v, id)
            /\ events[id].satisfactory =>
                  Changed(Changed(events, FALSE, id), TRUE, id) = events
            /\ ReportedFlag(Changed(events, v, id), id) = {v})
    /\ [][ \A checked \in [1..Len(rows) -> BOOLEAN] :
             (/\ ChangeEvents(checked, Len(redeem_changes(rows, checked)))
              /\ Len(redeem_changes(rows, checked)) = 1) =>
                LET c == redeem_changes(rows, checked)[1]
                IN  /\ ret'.ok
                    /\ events' = [events EXCEPT ![c[2]].satisfactory = c[1]]
                    /\ ReportedFlag(events', c[2]) = {c[1]}
         ]_vars

\* a correction has succeeded and the ledger holds an event with each flag
C13_Witness ==
    /\ ret.op = "change" /\ ret.ok /\ screen = "info"
    /\ Len(events) = 2
    /\ events[1].satisfactory /\ ~events[2].satisfactory
    /\ events[1].student_id = events[2].student_id

(* ------------------------------------------------------ ledger: summary *)
\* the students with status enrolled
Enrolled == {st \in students : st.status_id = EnrolledId}

\* the satisfactory events of student st with lo <= first_entered < hi
SatisfactoryIn(st, lo, hi) ==
    {i \in 1..Len(events) :
        /\ events[i].student_id = st.db_id
        /\ events[i].satisfactory
        /\ lo <= events[i].first_entered
        /\ events[i].first_entered < hi}

\* rs has one row for every enrolled student, with the student's three counts
\* for the boundaries t1, t2, t3, and no other row
RowPerEnrolled(rs, t1, t2, t3) ==
    /\ Cardinality(rs) = Cardinality(Enrolled)
    /\ \A st \in Enrolled :
          SummaryRow(st.username, Cardinality(SatisfactoryIn(st, 0, t1)),
                     Cardinality(SatisfactoryIn(st, t1, t2)),
                     Cardinality(SatisfactoryIn(st, t2, t3))) \in rs
    /\ \A st \in students \ Enrolled : \A r \in rs : r.username # st.username

\* a step in which the export called get_summary and it returned rows
SummaryReturned ==
    /\ screen = "export" /\ screen' = "export_msg"
    /\ ret'.op = "summary" /\ ret'.ok

\* C14: whenever get_summary returns, it returns exactly one row for every
\* enrolled student, with that student's three counts (0 for a student without
\* events, and when the ledger holds no event at all), and no row for a dropped
\* student.
C14_RowPerEnrolledStudent ==
    [][ SummaryReturned =>
          RowPerEnrolled(exported', SummaryBoundary1, SummaryBoundary2, SummaryBoundary3)
      ]_vars

\* C14, when the ledger holds at least one event (of any student): get_summary
\* returns one row for every enrolled student and none for a dropped one.
C14_RowPerEnrolledStudentWithEvents ==
    [][ (SummaryReturned /\ Len(events) >= 1) =>
          RowPerEnrolled(exported', SummaryBoundary1, SummaryBoundary2, SummaryBoundary3)
      ]_vars

\* the boundary triples t1 < t2 < t3 on the model's clock
BoundaryTriples ==
    {b \in (0..(MaxTime + 1)) \X (0..(MaxTime + 1)) \X (0..(MaxTime + 1)) :
        b[1] < b[2] /\ b[2] < b[3]}

\* the events of student st that the row r of a summary with boundaries b must
\* count: r's three counts are the sizes of three disjoint sets of satisfactory
\* events of st, split by b, and together they are the satisfactory events of
\* st before b[3]
BucketsOf(r, st, b) ==
    LET own == {i \in 1..Len(events) : events[i].student_id = st.db_id}
        b1 == {i \in own : events[i].satisfactory /\ events[i].first_entered < b[1]}
        b2 == {i \in own : /\ events[i].satisfactory
                            /\ b[1] <= events[i].first_entered
                            /\ events[i].first_entered < b[2]}
        b3 == {i \in own : /\ events[i].satisfactory
                            /\ b[2] <= events[i].first_entered
                            /\ events[i].first_entered < b[3]}
    IN  /\ r.p1 = Cardinality(b1) /\ r.p2 = Cardinality(b2) /\ r.p3 = Cardinality(b3)
        /\ b1 \cap b2 = {} /\ b1 \cap b3 = {} /\ b2 \cap b3 = {}
        /\ r.p1 + r.p2 + r.p3 =
              Cardinality({i \in own : events[i].satisfactory
                                        /\ events[i].first_entered < b[3]})

\* C15: for every boundaries t1 < t2 < t3, every row of the summary query is the
\* row of one enrolled student and counts that student's satisfactory events
\* only, each in one bucket: bucket 1 iff t < t1, bucket 2 iff t1 <= t < t2,
\* bucket 3 iff t2 <= t < t3; an event with t >= t3, an unsatisfactory event and
\* another student's event are counted nowhere.  So are the rows get_summary
\* returns to the export, for its own boundaries.
C15_Bucketing ==
    /\ [](\A b \in BoundaryTriples :
            \A r \in summarize_statement(students, events, statuses, b[1], b[2], b[3]) :
              \E st \in Enrolled : st.username = r.username /\ BucketsOf(r, st, b))
    /\ [][ SummaryReturned =>
             \A r \in exported' :
               \E st \in Enrolled :
                 /\ st.username = r.username
                 /\ BucketsOf(r, st, <<SummaryBoundary1, SummaryBoundary2, SummaryBoundary3>>)
         ]_vars

\* an export got a row that counts one of the student's two events: the other
\* is unsatisfactory or at or after the last boundary
C15_Witness ==
    /\ screen = "export_msg" /\ ret.op = "summary" /\ ret.ok
    /\ Len(events) = 2
    /\ events[1].student_id = events[2].student_id
    /\ \E r \in exported : r.p1 + r.p2 + r.p3 = 1

\* C16: the boundaries of a summary are the caller's: whatever triple
\* t1 < t2 < t3 the caller of get_summary means to use, the rows it gets are
\* the summary query's rows for that triple.
C16_CallerSuppliedBoundaries ==
    [][ SummaryReturned =>
          \A b \in BoundaryTriples :
             exported' = summarize_statement(students, events, statuses, b[1], b[2], b[3])
      ]_vars

(* --------------------------------------------- properties of the rebuild *)
\* the number of satisfactory events of the student with db_id sid, over all time
PointsOf(sid) ==
    Cardinality({i \in 1..Len(events) : events[i].satisfactory /\ events[i].student_id = sid})

\* a step in which update_summary ran to its end
RebuildSucceeded == pc = "summary" /\ pc' = "load"

\* C17: when update_summary has succeeded, every student has a summary row whose
\* points is the number of the student's satisfactory events over all time,
\* and summary_last_updated has been stamped.
C17_EveryStudentHasEntry ==
    [][ RebuildSucceeded =>
          /\ \A st \in students' :
                \E e \in summary' : e.student_id = st.db_id /\ e.points = PointsOf(st.db_id)
          /\ metadata'.summary_last_updated > metadata.summary_last_updated
      ]_vars

\* C17, for the summary rows that exist: when update_summary has succeeded every
\* one of them has the points of its student, counted over all time, no row has
\* appeared or gone, and summary_last_updated has been stamped.
C17_ExistingEntriesRebuilt ==
    [][ RebuildSucceeded =>
          /\ {e.student_id : e \in summary'} = {e.student_id : e \in summary}
          /\ \A e \in summary' : e.points = PointsOf(e.student_id)
          /\ metadata'.summary_last_updated > metadata.summary_last_updated
      ]_vars

\* C18: rebuilding what has been rebuilt changes nothing: the first statement of
\* update_summary applied to its own result gives that result, whatever the
\* points were before; and once a run's update_summary has succeeded, the
\* update_summary of a later run (the events being the same) leaves every row
\* of the summary as it is.
C18_RebuildRepeatable ==
    /\ [](summary_statement(summary_statement(summary, events), events) =
            summary_statement(summary, events))
    /\ [][ (pc = "summary" /\ metadata.summary_last_updated > 0) => summary' = summary ]_vars

\* the second run without a roster has rebuilt the summary after the first did
\* (each success moves the clock by two), and a row has two points
C18_Witness ==
    /\ run = 2 /\ pc = "load" /\ ~roster.is_some
    /\ clock = Len(events) + 5
    /\ metadata.summary_last_updated = clock - 1
    /\ Cardinality(summary) = 2
    /\ \E e \in summary : e.points = 2
    /\ \E e \in summary : e.points = 0

(* ------------------------------------------------------ startup barrier *)
\* a step that is a call of the ledger or a draw of the picker
OperatorTraffic ==
    \/ RecordEvent
    \/ RetrieveEvents
    \/ SubmitChanges
    \/ (ExportSubmit /\ screen' # screen)
    \/ Draw

\* a step that writes to the store at startup: set_up_tables' seeding, the
\* roster branch or update_summary
ReconciliationWrite ==
    <<metadata, statuses, categories, students, student_seq, summary>>' #
        <<metadata, statuses, categories, students, student_seq, summary>>

\* this run has seen a call of the ledger or a draw (Restart clears both)
TrafficSeen == ret.op # "none" \/ last_pick # <<>>

\* C19: a ledger call or a draw happens only in the UI, which runs only after
\* this run's startup has gone through: with a roster, the roster branch has run
\* to its end; every write of the startup happens before the UI is up and
\* before any traffic, and once there has been traffic nothing but the ledger
\* writes to the store until the process ends; and a run whose connection or
\* reconciliation failed has exited without any ledger call or draw.
C19_StartupBarrier ==
    /\ [](pc = "ui" => (roster.is_some => sync_ok) /\ exit_reason = "")
    /\ [](TrafficSeen =>
            /\ pc \in {"ui", "exited"}
            /\ pc = "exited" => exit_reason = "quit")
    /\ [](exit_reason \in {"error", "no students"} => pc = "exited" /\ ~TrafficSeen)
    /\ [][ /\ (pc # "ui" \/ ReconciliationWrite) => ~OperatorTraffic
           /\ ReconciliationWrite =>
                 (pc \in {"seed", "sync", "summary"} /\ ~TrafficSeen /\ ~TrafficSeen')
           /\ pc \in {"main", "seed", "sync_begin", "sync", "summary", "load"} =>
                 (~TrafficSeen /\ ~TrafficSeen')
         ]_vars

\* a run that reconciled (it wrote Ann's new username) has drawn a student and
\* recorded an event
C19_Witness ==
    /\ pc = "ui" /\ sync_ok /\ n_written = 1 /\ students # start_students
    /\ Len(events) = 1 /\ last_pick # <<>> /\ ret.op = "record" /\ ret.ok

(* ------------------------------------------- failures in interactive use *)
\* a step in which record, retrieve_events, change_events or get_summary was
\* called and returned Err
FailedCall ==
    /\ ~ret'.ok
    /\ \/ RecordEvent
       \/ RetrieveEvents
       \/ SubmitChanges
       \/ (ExportSubmit /\ screen' # screen)

\* what every failed call leaves: the error is what the callback reports, the
\* process runs its event loop, no mutex guard is alive and the picker is as
\* it was
LoopContinues ==
    /\ ret'.op \in {"record", "retrieve", "change", "summary"}
    /\ ret'.err \in {"io", "not_null"}
    /\ pc' = "ui" /\ exit_reason' = ""
    /\ held' = {}
    /\ pickervars' = pickervars

\* the callbacks of the dialog on top can run: their mutexes are free and
\* nothing but the bounds of the ledger holds them back
RetryEnabled ==
    /\ screen = "recording" =>
          /\ ENABLED Draw
          /\ (Len(events) < MaxEvents /\ clock < MaxTime) => ENABLED RecordEvent
    /\ screen = "redeem_input" => ENABLED RetrieveEvents
    /\ screen = "redeem_choose" => ENABLED SubmitChanges
    /\ screen = "export" => ENABLED ExportSubmit
    /\ screen \in {"export_msg", "info"} => ENABLED Dismiss
    /\ screen = "main" => ENABLED ExportSummary /\ ENABLED RecordParticipation

\* C20 (as stated): a failed call leaves the process in its event loop with the
\* mutexes free and the same dialog on top, where the call can be made again.
C20_FailureKeepsScreen ==
    /\ [](pc = "ui" => RetryEnabled)
    /\ [][ FailedCall => (LoopContinues /\ screen' = screen) ]_vars

\* C20: a failed call leaves the process in its event loop with the mutexes
\* free; after record, retrieve_events and change_events the same dialog is on
\* top and the call can be made again at once; after get_summary the file name
\* dialog has been replaced by the message that reports the error, over the main
\* menu, from which the export can be started again.
C20_FailureReported ==
    /\ [](pc = "ui" => RetryEnabled)
    /\ [][ FailedCall =>
             /\ LoopContinues
             /\ IF ret'.op = "summary"
                THEN screen = "export" /\ screen' = "export_msg" /\ exported' = {}
                ELSE screen' = screen
         ]_vars

\* a get_summary has failed in a run that has recorded an event and drawn a
\* student: the message is on top
C20_Witness ==
    /\ pc = "ui" /\ ret.op = "summary" /\ ~ret.ok /\ screen = "export_msg"
    /\ Len(events) >= 1 /\ last_pick # <<>>

(* ------------------------------------------------ what the store keeps *)
\* two versions of an event row that differ in the flag at most
EventFixed(e, f) ==
    /\ e.student_id = f.student_id
    /\ e.category_id = f.category_id
    /\ e.first_entered = f.first_entered

\* C21: in every step of the program, startup and reconciliation included, no
\* event is deleted (the ids 1..Len(events) only grow), an event keeps its
\* student_id, category_id and first_entered, an event is created only by a
\* record call (one row, returned as Ok(1)), and a satisfactory flag changes
\* only in a change_events call.
C21_EventsOnlyGrow ==
    [][ /\ Len(events') >= Len(events)
        /\ \A i \in 1..Len(events) : EventFixed(events[i], events'[i])
        /\ Len(events') > Len(events) =>
              /\ RecordEvent
              /\ Len(events') = Len(events) + 1
              /\ ret' = Ok("record", 1)
        /\ (\E i \in 1..Len(events) : events'[i].satisfactory # events[i].satisfactory)
              => SubmitChanges
      ]_vars

\* the second run has reconciled the roster over a store that holds an event of
\* the first run, and a change_events call has gone through
C21_Witness ==
    /\ run = 2 /\ pc = "ui" /\ sync_ok /\ prev_sync_ok
    /\ Len(events) = 1 /\ ret.op = "change" /\ ret.ok /\ screen = "info"

\* the row of table tbl with a db_id is in tbl2 too, with the same ub_id and
\* first_entered
RowKept(r, tbl2) ==
    \E q \in tbl2 : q.db_id = r.db_id /\ q.ub_id = r.ub_id
                       /\ q.first_entered = r.first_entered

\* C22: no two student rows, enrolled or dropped, have the same ub_id (or the
\* same db_id); in every step every row stays, with its db_id, ub_id and
\* first_entered; and a row is created only by the roster loop's statement, one
\* at a time, for a ub_id of the roster that no row had.
C22_StudentsOnlyGrow ==
    /\ [](\A r1, r2 \in students :
            (r1.ub_id = r2.ub_id \/ r1.db_id = r2.db_id) => r1 = r2)
    /\ [][ /\ \A r \in students : RowKept(r, students')
           /\ \A q \in students' :
                 (\A r \in students : r.db_id # q.db_id) =>
                     /\ SyncUpsert
                     /\ \A r \in students : r.ub_id # q.ub_id
                     /\ q.ub_id \in RosterUbIds
                     /\ Cardinality(students') = Cardinality(students) + 1
         ]_vars

\* a second run's reconciliation has inserted a row and re-enrolled another,
\* whose name, username, status and last_updated are new
C22_Witness ==
    /\ run = 2 /\ sync_ok /\ n_inserted = 1
    /\ \E r \in start_students, q \in students :
          /\ q.db_id = r.db_id
          /\ q.name # r.name /\ q.username # r.username
          /\ q.status_id # r.status_id /\ q.last_updated # r.last_updated

\* the names in the categories table
CategoryNames == {categories[i] : i \in 1..Len(categories)}

C24_OnlyOneIsSuccess ==
    /\ [](form.status = "Submitted successfully" => ret = Ok("record", 1))
    /\ [][ SubmitReturns =>
             /\ (form'.status = "Submitted successfully") <=> (ret' = Ok("record", 1))
             /\ (form'.fields = "empty") <=> (ret' = Ok("record", 1))
             /\ ret' = Ok("record", 0) =>
                   /\ form'.status = "Problem: submitted"
                   /\ form'.fields = "typed"
                   /\ screen' = "recording"
         ]_vars

\* record has returned Ok(0) for a drawn student: the problem text is shown
\* over the fields as typed
C24_Witness ==
    /\ ret = Ok("record", 0) /\ last_pick # <<>>
    /\ form = [status |-> "Problem: submitted", fields |-> "typed"]

(* ------------------------------------------------------ the client mutex *)
\* a step that is a whole EventRecorder call: record, retrieve_events or
\* get_summary
WholeCall ==
    \/ RecordEvent
    \/ RetrieveEvents
    \/ (ExportSubmit /\ screen' # screen)

\* C25: a guard of the client mutex is alive exactly while a change_events call
\* is in progress, and then from its first statement to its last; every
\* statement of a batch is executed under that guard; every other EventRecorder
\* call finds the mutex free, takes it and gives it back, so it never runs
\* inside a batch; while a batch is in progress nothing but its own statements
\* changes the store, and no call of the startup runs while the UI does.
C25_CallsSerialized ==
    /\ [](batch.active <=> "client" \in held)
    /\ [](batch.active => pc = "ui" /\ screen = "redeem_choose")
    /\ [][ /\ ChangeExecute => ("client" \in held /\ "recorder" \in held)
           /\ WholeCall => (held = {} /\ held' = {} /\ ~batch.active)
           /\ (batch.active /\ dbvars' # dbvars) => (ChangeExecute \/ Tick)
           /\ ReconciliationWrite => (held = {} /\ ~batch.active /\ pc # "ui")
         ]_vars

\* the first of two changes has been executed and the second has not: the
\* guards are alive
C25_Witness ==
    /\ batch.active /\ Len(batch.changes) = 2 /\ batch.done = 1
    /\ held = {"recorder", "client"}
    /\ \E i \in 1..Len(rows) : events[rows[i].db_id].satisfactory # rows[i].satisfactory

(* ------------------------------------------------- the picker's state *)
\* C26: shuffled_indices is a permutation of 0..N-1 and 0 <= cur_ind <= N in
\* every state; a draw from a pool of N >= 1 students changes the bag only when
\* no draw has been made yet (cur_ind = 0) or the bag is used up (cur_ind = N),
\* leaves it alone in the middle of a pass, returns the student at the
\* cursor's position in the bag and leaves the cursor one past it.
C26_PickerInvariant ==
    /\ [](/\ Len(shuffled_indices) = Len(pool)
          /\ {shuffled_indices[i] : i \in 1..Len(pool)} = 0..(Len(pool) - 1)
          /\ cur_ind \in 0..Len(pool))
    /\ [](cur_ind = 0 => last_pick = <<>>)
    /\ [][ (Draw /\ Len(pool) >= 1) =>
             LET N == Len(pool)
                 at == IF cur_ind = N THEN 0 ELSE cur_ind
             IN  /\ pc' = "ui"
                 /\ cur_ind' = at + 1
                 /\ last_pick' = <<pool[shuffled_indices'[at + 1] + 1]>>
                 /\ shuffled_indices' # shuffled_indices => cur_ind \in {0, N}
                 /\ cur_ind \notin {0, N} => shuffled_indices' = shuffled_indices
         ]_vars

\* a pass over three students has used up a bag that a shuffle has reordered
C26_Witness ==
    /\ Len(pool) = 3 /\ cur_ind = 3
    /\ shuffled_indices = <<1, 2, 0>>
    /\ last_pick = <<pool[1]>>

\* C27: when a draw from a pool of N >= 2 students returns the student the draw
\* before it returned, the earlier draw was the last of a pass (the cursor was
\* at N) and this one is the first of the next; within a pass no draw repeats
\* the one before it.
C27_RepeatOnlyAcrossPasses ==
    /\ []((Len(pool) >= 2 /\ last_pick # <<>> /\ prev_pick = last_pick) => cur_ind = 1)
    /\ [][ (Draw /\ Len(pool) >= 2 /\ last_pick # <<>> /\ last_pick' = last_pick) =>
             (cur_ind = Len(pool) /\ cur_ind' = 1 /\ Len(pass_drawn) = Len(pool)
                /\ pass_drawn' = last_pick)
         ]_vars

\* the first draw of a pass over three students has returned the student the
\* last draw of the pass before it returned
C27_Witness ==
    /\ Len(pool) = 3 /\ cur_ind = 1
    /\ last_pick # <<>> /\ prev_pick = last_pick /\ pass_drawn = last_pick

(* ----------------------------------------- re-enrolment and dropped rows *)
\* C28: when the roster branch has run to its end, every row that was dropped
\* at the start of the run and whose ub_id the roster names is the one row of
\* that ub_id, enrolled, with a later last_updated and with the db_id and
\* first_entered it had.
C28_ReEnrolment ==
    sync_ok =>
        \A r \in start_students :
            (r.status_id = DroppedId /\ r.ub_id \in RosterUbIds) =>
                /\ Cardinality({q \in students : q.ub_id = r.ub_id}) = 1
                /\ \A q \in students :
                      q.ub_id = r.ub_id =>
                          /\ q.status_id = EnrolledId
                          /\ q.last_updated > r.last_updated
                          /\ q.db_id = r.db_id
                          /\ q.first_entered = r.first_entered

\* a run has re-enrolled a dropped student under the name and username it
\* had, and inserted no row
C28_Witness ==
    /\ sync_ok /\ n_inserted = 0 /\ n_written = 1
    /\ Cardinality(students) = 2
    /\ \E r \in start_students :
          /\ r.status_id = DroppedId /\ r.ub_id \in RosterUbIds
          /\ \E q \in students : q.db_id = r.db_id /\ q.name = r.name
                                   /\ q.username = r.username /\ q.status_id = EnrolledId

\* the rows that were dropped when the run started and that its roster does
\* not name
DroppedAndAbsent ==
    {r \in start_students : r.status_id = DroppedId /\ r.ub_id \notin RosterUbIds}

\* C29: in a run with a roster, a row that was dropped at the start and that
\* the roster does not name is in the table as it was, last_updated included,
\* at every point of the run; and the turn of the drop loop that reaches its
\* ub_id writes no row.
C29_DroppedStaysUntouched ==
    /\ [](roster.is_some => DroppedAndAbsent \subseteq students)
    /\ [][ (SyncDrop /\ \E r \in DroppedAndAbsent :
                          ub_ids_already_present \ ub_ids_already_present' = {r.ub_id}) =>
             (students' = students /\ n_written' = n_written)
         ]_vars

\* the drop loop has gone over two students: it has dropped one and left the
\* one that was dropped already as it was
C29_Witness ==
    /\ sync_ok /\ n_written = 1 /\ Cardinality(students) = 2
    /\ \E r \in DroppedAndAbsent : r \in students
    /\ \E r \in start_students : r.status_id = EnrolledId /\ r \notin students

(* ------------------------------------------- the rebuild after the roster *)
\* a step in which a statement of update_summary wrote to the store
SummaryWrite ==
    \/ summary' # summary
    \/ /\ metadata.exists
       /\ metadata'.summary_last_updated # metadata.summary_last_updated

\* the order of a run: with a roster, update_summary is reached only when both
\* loops of the roster branch are over (a run whose roster branch fails never
\* reaches it); its statements write only then; and the students table is
\* written only by the roster branch, before that
RebuildAfterReconciliation ==
    /\ []((pc \in {"summary", "load", "ui"} /\ roster.is_some) =>
            /\ sync_ok
            /\ ~RosterIterator_next(roster.val, pos).some
            /\ ub_ids_already_present = {})
    /\ [][ /\ SummaryWrite => (pc = "summary" /\ (roster.is_some => sync_ok))
           /\ students' # students => (pc = "sync" /\ ~sync_ok /\ ~sync_ok')
         ]_vars

\* C30: update_summary runs after the last upsert and the last drop of the
\* run, and not at all when the roster branch fails; and when it has succeeded
\* after a reconciliation the cache holds, for every student of the reconciled
\* table, a row with the student's points.
C30_CacheReflectsReconciledSet ==
    /\ RebuildAfterReconciliation
    /\ [][ (RebuildSucceeded /\ sync_ok) =>
             \A st \in students' :
                 \E e \in summary' : e.student_id = st.db_id /\ e.points = PointsOf(st.db_id)
         ]_vars

(* ------------------------------------------------ the picker in the program *)
\* the students of the pool, and the Student values of the enrolled rows
PoolSet == {pool[i] : i \in 1..Len(pool)}
EnrolledStudents ==
    {Student_new(r.db_id, r.ub_id, r.name, r.first_entered, r.status_id, r.last_updated) :
       r \in {q \in students : q.status_id = EnrolledId}}

\* the ub_ids of the rows this run's reconciliation has dropped
DroppedThisRun ==
    {r.ub_id : r \in {q \in start_students :
                        /\ q.status_id = EnrolledId
                        /\ \E d \in students : d.ub_id = q.ub_id /\ d.status_id = DroppedId}}

\* C31: while the UI runs, the picker's pool holds exactly the students whose
\* row is enrolled after this run's startup, each once; what the picker has
\* returned is one of them, and never a student this run has dropped.
C31_DrawsFromEnrolledSnapshot ==
    /\ pc = "ui" =>
          /\ PoolSet = EnrolledStudents
          /\ Len(pool) = Cardinality(EnrolledStudents)
    /\ last_pick # <<>> =>
          /\ last_pick[1] \in PoolSet
          /\ last_pick[1] \in EnrolledStudents
          /\ last_pick[1].ub_id \notin DroppedThisRun

\* the run has dropped one student and re-enrolled another, who has been drawn
C31_Witness ==
    /\ pc = "ui" /\ sync_ok /\ DroppedThisRun # {} /\ Cardinality(students) = 2
    /\ last_pick # <<>> /\ cur_ind = 1
    /\ \E r \in start_students :
          r.status_id = DroppedId /\ r.ub_id = last_pick[1].ub_id

\* C32: in the program main starts, the UI runs over a pool of at least one
\* student, which stays as it is while the UI runs; next() never panics, and
\* every draw returns a student of the pool.
C32_NeverDrawsFromEmptyPool ==
    /\ [](pc # "panicked")
    /\ [](pc = "ui" => Len(pool) >= 1)
    /\ [][ pc = "ui" => pool' = pool ]_vars
    /\ [][ Draw => (pc' = "ui" /\ last_pick' # <<>> /\ last_pick'[1] \in PoolSet) ]_vars

\* a pool of one student has been drawn from twice: the cursor has gone round
C32_Witness ==
    /\ pc = "ui" /\ Len(pool) = 1 /\ cur_ind = 1
    /\ last_pick # <<>> /\ prev_pick = last_pick

\* the state of a callback after all its lock() calls and drops, when it
\* starts from the guards alive now
CallbackLocks(cb) == run_locks(LockStart(held), callback_locks(cb))

\* C33: between two callbacks no guard is alive, and every callback started
\* then runs all its lock() calls without hanging: it never locks a mutex whose
\* guard it holds, it never locks the recorder while it holds the client, and
\* it leaves no guard alive when it returns.
C33_NoCallbackDeadlock ==
    /\ held = {}
    /\ pc = "ui" =>
          \A cb \in Callbacks :
              LET s == CallbackLocks(cb)
              IN  /\ ~s.stuck
                  /\ ~s.relocked
                  /\ ~s.inverted
                  /\ s.held = held
                  /\ s.mine = <<>>

\* a student has been drawn, and later a change_events call has returned
C33_Witness ==
    /\ pc = "ui" /\ held = {}
    /\ last_pick # <<>>
    /\ ret = Ok("change", 0)
    /\ screen = "info"

\* the UI as main starts it over a store of two enrolled students, one of whom
\* earned an event in an earlier run
RotationInit ==
    /\ metadata = [exists |-> TRUE, last_opened |-> 0, summary_last_updated |-> 0]
    /\ statuses = SeededStatuses
    /\ categories = SeededCategories
    /\ students = {StudentRow(1, "u1", "Ann", "ann", EnrolledId, 0, 0),
                   StudentRow(2, "u2", "Bob", "bob", EnrolledId, 0, 0)}
    /\ student_seq = Cardinality(UbIds) + 1
    /\ events = <<EventRow(1, 1, 0, TRUE)>>
    /\ summary = {}
    /\ clock = 1
    /\ roster = NoRoster
    /\ \E studs \in get_students(students, statuses) : UiInit(studs)
    /\ screen = "main"
    /\ form = NoDialog
    /\ HistoryInit

\* the callbacks of the UI: the draw, the moves between the menu and the
\* dialogs, and the calls of the ledger
RotationNext ==
    \/ Draw
    \/ RecordParticipation
    \/ RedeemPoints
    \/ ExportSummary
    \/ BackToMain
    \/ Dismiss
    \/ SubmitReturns
    \/ RetrieveEvents
    \/ SubmitChanges
    \/ ExportSubmit

RotationSpec == RotationInit /\ [][RotationNext]_vars

\* the picker's rotation state: the pool, the shuffled order and the cursor
RotationState == <<pool, shuffled_indices, cur_ind>>

\* C34: while the UI runs, every step that is not a random draw (a move between
\* the main menu, the recording dialog and the redeeming dialog, a Submit, a
\* Retrieve, a correction, an export) leaves the picker's pool, shuffled order
\* and cursor as they are, and a draw made in the middle of a pass (the cursor
\* neither at the start nor at the end of the order) does not reshuffle.
C34_PickerPersists ==
    /\ [][ (pc = "ui" /\ ~Draw) => UNCHANGED <<RotationState, last_pick>> ]_vars
    /\ [][ (Draw /\ cur_ind # 0 /\ cur_ind # Len(shuffled_indices))
              => shuffled_indices' = shuffled_indices ]_vars

\* in the middle of a pass of two students, after the moves from the recording
\* dialog to the redeeming dialog and a Retrieve, the cursor still stands after
\* the first draw
C34_Witness ==
    /\ pc = "ui" /\ Len(pool) = 2
    /\ cur_ind = 1 /\ Len(pass_drawn) = 1
    /\ screen = "redeem_choose"
    /\ ret = Ok("retrieve", 0)
    /\ Len(rows) = 1

\* C35: a run started without a roster never enters the roster branch and
\* leaves the students table as the run found it (no row inserted, no status
\* and no last_updated changed), while it does rebuild the summary; a run over
\* an empty roster that found enrolled students does not leave the table as it
\* found it.
C35_NoRosterNoStudentChange ==
    /\ ~roster.is_some =>
          /\ students = start_students
          /\ n_written = 0 /\ n_inserted = 0
          /\ ~sync_ok
          /\ pc \notin {"sync_begin", "sync"}
          /\ ub_ids_already_present = {}
          /\ pc = "load" => metadata.summary_last_updated = clock - 1
    /\ ( /\ roster.is_some /\ Len(roster.val.ub_ids) = 0 /\ sync_ok
         /\ \E r \in start_students : r.status_id = EnrolledId )
          => /\ students # start_students
             /\ \A r \in students : r.status_id = DroppedId

\* a second run without a roster over enrolled and dropped students has
\* rebuilt the summary
C35_Witness ==
    /\ ~roster.is_some /\ run = 2 /\ pc = "load"
    /\ \E r \in students : r.status_id = EnrolledId /\ r.last_updated = 0
    /\ \E r \in students : r.status_id = DroppedId
    /\ metadata.summary_last_updated = clock - 1

\* the roster entry the upsert loop is about to take
NextEntry == RosterIterator_next(roster.val, pos)

\* that entry's name or username is the one of a stored student with another ub_id
EntryCollides ==
    /\ pc = "sync"
    /\ NextEntry.some
    /\ \E r \in students :
          /\ r.ub_id # NextEntry.ub_id
          /\ (r.name = NextEntry.name \/ r.username = NextEntry.username)

\* C36: no two stored students share a name or a username, so a name typed
\* into record or retrieve_events matches at most one row; the upsert of a
\* roster entry whose name or username is the one of a stored student with
\* another ub_id fails: the run exits with the database error at that entry,
\* the table is left as it was before the statement, no student has been
\* dropped by the run, and nothing is written to the table afterwards.
C36_NameAndUsernameUnique ==
    /\ [](\A r1, r2 \in students :
              (r1.name = r2.name \/ r1.username = r2.username) => r1 = r2)
    /\ [](\A n \in TypedNames : Cardinality({r \in students : r.name = n}) <= 1)
    /\ [][ EntryCollides =>
              /\ pc' = "exited" /\ exit_reason' = "error"
              /\ pos' = pos + 1
              /\ students' = students
              /\ ~sync_ok'
              /\ DroppedThisRun' = {} ]_vars
    /\ [][ (pc = "exited" /\ pc' = "exited") => students' = students /\ pos' = pos ]_vars

\* the run has stopped at its first entry, which takes the name of another
\* stored student; a second entry was waiting and an absent student is still
\* enrolled
C36_Witness ==
    /\ pc = "exited" /\ exit_reason = "error" /\ roster.is_some
    /\ pos = 1 /\ Len(roster.val.ub_ids) = 2
    /\ students = start_students
    /\ \E r \in students :
          /\ r.ub_id # roster.val.ub_ids[1]
          /\ r.name = roster.val.names[1]
          /\ r.status_id = EnrolledId
          /\ r.ub_id # roster.val.ub_ids[2]

\* the rows of the chooser whose checkbox, in the setting checked, differs from
\* the flag that was retrieved
Differing(checked) == {i \in 1..Len(rows) : rows[i].satisfactory # checked[i]}

\* C37: whatever the checkboxes of the chooser are set to, the list its Submit
\* builds holds one pair for every retrieved row whose checkbox differs from
\* the retrieved flag and none for any other row; the pair is the checkbox's
\* value and the row's id; the pairs stand in the order of the retrieved rows,
\* which is ascending first_entered; and when no checkbox differs the list is
\* empty and change_events leaves every event as it is.
C37_ChangeListIsTheDifference ==
    screen = "redeem_choose" =>
        /\ \A i, j \in 1..Len(rows) :
              i < j => rows[i].first_entered < rows[j].first_entered
        /\ \A checked \in [1..Len(rows) -> BOOLEAN] :
              LET changes == redeem_changes(rows, checked)
              IN  /\ Len(changes) = Cardinality(Differing(checked))
                  /\ \A i \in Differing(checked) :
                        \E j \in 1..Len(changes) :
                            changes[j] = <<~rows[i].satisfactory, rows[i].db_id>>
                  /\ \A j \in 1..Len(changes) :
                        \E i \in Differing(checked) :
                            changes[j] = <<checked[i], rows[i].db_id>>
                  /\ \A j1, j2 \in 1..Len(changes) :
                        j1 < j2 =>
                          \E i1, i2 \in 1..Len(rows) :
                              /\ i1 < i2
                              /\ rows[i1].db_id = changes[j1][2]
                              /\ rows[i2].db_id = changes[j2][2]
                  /\ Differing(checked) = {} =>
                        /\ changes = <<>>
                        /\ change_events(events, changes, 0).events = events
                        /\ change_events(events, changes, 0).ret.ok

\* the chooser shows two rows; a Submit has changed the first of them in the
\* store and failed, so a second Submit of the same checkboxes still lists
\* both rows against the retrieved flags
C37_Witness ==
    /\ screen = "redeem_choose" /\ Len(rows) = 2
    /\ ret = Err("change", "io")
    /\ events[rows[1].db_id].satisfactory # rows[1].satisfactory
    /\ events[rows[2].db_id].satisfactory = rows[2].satisfactory

====
